---- MODULE Spec2Model ----
(***************************************************************************)
(* State-machine model of the qmd store: collections, documents, content,  *)
(* the documents_fts mirror, path contexts and the two vector tables, with  *)
(* the indexing run (CollectionManager.indexFiles), the two embedding runs  *)
(* (vectorIndex and VectorService.embedDocuments) and the repository       *)
(* operations that act on them.                                             *)
(***************************************************************************)
EXTENDS Integers, Sequences, FiniteSets, TLC

\* ------------------------------------------------------------------------
\* Bounds of the model
\* ------------------------------------------------------------------------

\* number of timestamped operations (indexFiles runs, creates, renames) in one behaviour
MaxClock == 3

\* number of direct repository mutations of documents in one behaviour
MaxRepoOps == 1

\* ------------------------------------------------------------------------
\* The environment: directories, globs, files and bodies
\* ------------------------------------------------------------------------

\* two directories with the same basename; only the first one holds files
Pwds == {"/w/notes", "/v/notes"}

Globs == {"**/*.md", "*.md"}

Paths == {"x.md", "sub/y.md"}

\* order in which the file walk yields paths
WalkOrder == <<"sub/y.md", "x.md">>

NoFile == "<absent>"

\* file bodies: the empty file, a short file with a heading, and a file of
\* CHUNK_BYTE_SIZE + 1 letters "a" (no heading, no natural boundary)
BigBody == "aaa...a"

Bodies == {"", "# T", BigBody}

NoName == "<none>"

Names == {"notes", "docs"}

\* the name argument of create and indexFiles: none, or one that differs from the basename
NameArgs == {NoName, "docs"}

\* the (pwd, glob_pattern) pairs the operations are called with
CollectionKeys == {<<"/w/notes", "**/*.md">>, <<"/w/notes", "*.md">>, <<"/v/notes", "**/*.md">>}

Models == {"embeddinggemma", "mxbai-embed-large"}

\* dimension of the vectors the provider returns for a model
EmbeddingDim(model) == IF model = "embeddinggemma" THEN 768 ELSE 1024

Dims == {EmbeddingDim(m) : m \in Models}

CHUNK_BYTE_SIZE == 6 * 1024

\* ------------------------------------------------------------------------
\* Pure helpers
\* ------------------------------------------------------------------------

\* UTF-8 length of a body (TextEncoder.encode(body).length)
ByteLength(body) ==
  IF body = "" THEN 0 ELSE IF body = "# T" THEN 3 ELSE CHUNK_BYTE_SIZE + 1

\* SHA-256 hex digest, abbreviated; injective on Bodies
hashContent(body) ==
  IF body = "" THEN "e3b0c442" ELSE IF body = "# T" THEN "5f2d91aa" ELSE "c0ffee17"

Hashes == {hashContent(b) : b \in Bodies}

HashOrder == <<"5f2d91aa", "c0ffee17", "e3b0c442">>

\* filename.replace(/\.md$/, "").split("/").pop()
FileStem(path) == IF path = "x.md" THEN "x" ELSE "y"

\* first level-1/2 heading of the body, else the file stem
extractTitle(body, path) == IF body = "# T" THEN "T" ELSE FileStem(path)

\* last path component of pwd (pwd.split("/").filter(Boolean) last part)
Basename(pwd) == "notes"

\* glob.scan match of a relative path
GlobMatches(glob, path) == IF glob = "**/*.md" THEN TRUE ELSE path = "x.md"

\* chunk start positions of chunkDocument(body, maxBytes) for the bodies above:
\* a body that fits is one chunk at 0; a run of single-byte letters without
\* any natural boundary is cut every maxBytes characters
chunkDocument(body, maxBytes) ==
  IF ByteLength(body) <= maxBytes
    THEN <<0>>
    ELSE [i \in 1..((ByteLength(body) + maxBytes - 1) \div maxBytes) |-> (i - 1) * maxBytes]

\* the vec table key `${hash}_${seq}`
HashSeq(hash, seq) == hash \o "_" \o ToString(seq)

RECURSIVE SeqOfSet(_, _)
\* the elements of set s in the order of sequence ord
SeqOfSet(ord, s) ==
  IF ord = <<>> THEN <<>>
  ELSE IF Head(ord) \in s THEN <<Head(ord)>> \o SeqOfSet(Tail(ord), s)
  ELSE SeqOfSet(Tail(ord), s)

RECURSIVE Flatten(_)
Flatten(ss) == IF ss = <<>> THEN <<>> ELSE Head(ss) \o Flatten(Tail(ss))

Range(f) == {f[i] : i \in DOMAIN f}

\* ------------------------------------------------------------------------
\* State
\* ------------------------------------------------------------------------

VARIABLES
  fs,               \* files of "/w/notes": path -> body or NoFile
  collections,      \* rows [id, name, pwd, glob_pattern, updated_at]
  documents,        \* rows [id, collection_id, path, title, hash, modified_at, active]
  content,          \* rows [hash, doc]
  documents_fts,    \* rows [rowid, path, body]
  path_contexts,    \* rows [id, collection_id, path_prefix, context]
  content_vectors,  \* rows [hash, seq, pos, model]
  vectors_vec,      \* keys hash_seq of the vec0 table
  vecDim,           \* float[D] of the vec0 table, 0 when the table does not exist
  ollama_cache,     \* rows [hash, result] of the cache of provider responses
  legacy,           \* the tables of the flat schema of a database not yet migrated
  proc,             \* the CLI process: terminal cursor, singleton handle, exit code
  llm,              \* the provider requests and cache accesses of the call in progress
  nextId,           \* AUTOINCREMENT counters [collections, documents, path_contexts]
  clock,            \* the time "now" of the last timestamped operation
  repoOps,          \* direct repository mutations made so far
  pc,               \* "idle" or the position of the run in progress
  run,              \* locals of the indexFiles run in progress
  emb,              \* locals of the embedding run in progress
  lastOp,           \* the last operation and what it returned or threw
  snap              \* documents and content when a repeated indexFiles run began

vars == <<fs, collections, documents, content, documents_fts, path_contexts,
          content_vectors, vectors_vec, vecDim, ollama_cache, legacy, proc, llm, nextId,
          clock, repoOps, pc, run, emb, lastOp, snap>>

storeVars == <<collections, documents, content, documents_fts, path_contexts>>

vecVars == <<content_vectors, vectors_vec, vecDim>>

NoErr == "ok"

NoRun == [active |-> FALSE]

NoSnap == [taken |-> FALSE]

\* a process that has hidden no cursor and opened no database; handles are the
\* connections the running withDb callbacks were given, the outermost first
NoProc == [cursor |-> "shown", cliDb |-> "null", exit |-> -1, handles |-> <<>>]

\* getDb(): the singleton connection, created on first access
getDb(p) == [p EXCEPT !.cliDb = "open"]

\* closeDb(): the singleton connection is closed and forgotten
closeDb(p) ==
  IF p.cliDb = "null" THEN p
  ELSE [p EXCEPT !.cliDb = "null", !.handles = [i \in DOMAIN @ |-> "closed"]]

\* main().catch: the cursor is shown before the process exits with 1
MainCatch(p) == [p EXCEPT !.cursor = "shown"]

\* no provider call in progress
NoLlm == [active |-> FALSE]

\* a database that was created with the content-addressable schema
NoLegacy == [schema |-> "none", collections |-> {}, documents |-> {}, path_contexts |-> {}]

\* the relational tables as one value
DB == [collections |-> collections, documents |-> documents, content |-> content,
       fts |-> documents_fts, path_contexts |-> path_contexts]

SetDB(db) ==
  /\ collections' = db.collections
  /\ documents' = db.documents
  /\ content' = db.content
  /\ documents_fts' = db.fts
  /\ path_contexts' = db.path_contexts

\* the directory listing of pwd: "/v/notes" is an empty directory
FilesOf(pwd) == IF pwd = "/w/notes" THEN {p \in Paths : fs[p] # NoFile} ELSE {}

\* ------------------------------------------------------------------------
\* Schema: constraints, cascades and the FTS triggers
\* ------------------------------------------------------------------------

ContentHashes(cont) == {c.hash : c \in cont}

\* SELECT doc FROM content WHERE hash = ?  (NULL when there is no row)
DocOfHash(cont, hash) ==
  IF hash \in ContentHashes(cont) THEN (CHOOSE c \in cont : c.hash = hash).doc ELSE "<null>"

\* trigger documents_ai
documents_ai(fts, cont, new) ==
  IF new.hash \in ContentHashes(cont)
    THEN fts \cup {[rowid |-> new.id, path |-> new.path, body |-> DocOfHash(cont, new.hash)]}
    ELSE fts

\* trigger documents_ad
documents_ad(fts, old) == {f \in fts : f.rowid # old.id}

\* an update trigger that rewrites the path but leaves the indexed body as it was
documents_au_KeepsBody(fts, cont, new) ==
  {IF f.rowid = new.id THEN [rowid |-> f.rowid, path |-> new.path, body |-> f.body] ELSE f :
     f \in fts}

\* trigger documents_au
documents_au(fts, cont, new) ==
  {IF f.rowid = new.id
     THEN [rowid |-> f.rowid, path |-> new.path, body |-> DocOfHash(cont, new.hash)]
     ELSE f : f \in fts}

RECURSIVE FireDeletes(_, _)
\* documents_ad fired for every row of olds
FireDeletes(fts, olds) ==
  IF olds = {} THEN fts
  ELSE LET o == CHOOSE o \in olds : TRUE IN FireDeletes(documents_ad(fts, o), olds \ {o})

\* DELETE FROM documents for a set of rows, triggers included
DeleteDocumentRows(db, rows) ==
  [db EXCEPT !.documents = db.documents \ rows, !.fts = FireDeletes(db.fts, rows)]

\* a schema whose documents.hash foreign key has no ON DELETE CASCADE
CascadeOnContent_NoCascade(docs, hashes) == {}

\* documents rows removed by FOREIGN KEY (hash) ... ON DELETE CASCADE
CascadeOnContent(docs, hashes) == {d \in docs : d.hash \in hashes}

\* DELETE FROM content for a set of hashes, cascade included
DeleteContentRows(db, hashes) ==
  LET db1 == DeleteDocumentRows(db, CascadeOnContent(db.documents, hashes))
  IN [db1 EXCEPT !.content = {c \in db.content : c.hash \notin hashes}]

\* DELETE FROM collections WHERE id = ?, cascades on documents and path_contexts
DeleteCollectionRow(db, id) ==
  LET db1 == DeleteDocumentRows(db, {d \in db.documents : d.collection_id = id})
  IN [db1 EXCEPT !.collections = {c \in db.collections : c.id # id},
                 !.path_contexts = {x \in db.path_contexts : x.collection_id # id}]

\* INSERT INTO documents fails: UNIQUE(collection_id, path) or a foreign key
DocumentInsertFails(db, collection_id, path, hash) ==
  \/ \E d \in db.documents : d.collection_id = collection_id /\ d.path = path
  \/ hash \notin ContentHashes(db.content)
  \/ collection_id \notin {c.id : c \in db.collections}

\* INSERT INTO collections fails: UNIQUE name or UNIQUE(pwd, glob_pattern)
CollectionInsertFails(colls, name, pwd, glob) ==
  \E c \in colls : c.name = name \/ (c.pwd = pwd /\ c.glob_pattern = glob)

\* ------------------------------------------------------------------------
\* DocumentRepository
\* ------------------------------------------------------------------------

\* INSERT OR IGNORE INTO content
insertContent(db, hash, doc) ==
  IF hash \in ContentHashes(db.content) THEN db
  ELSE [db EXCEPT !.content = db.content \cup {[hash |-> hash, doc |-> doc]}]

\* INSERT INTO documents ... active = 1 (the caller has checked DocumentInsertFails)
createDocument(db, id, collection_id, path, title, hash, modified_at) ==
  LET new == [id |-> id, collection_id |-> collection_id, path |-> path, title |-> title,
              hash |-> hash, modified_at |-> modified_at, active |-> 1]
  IN [db EXCEPT !.documents = db.documents \cup {new},
                !.fts = documents_ai(db.fts, db.content, new)]

\* SELECT * FROM documents WHERE collection_id = ? AND path = ? AND active = 1
getByCollectionAndPath(docs, collection_id, path) ==
  {d \in docs : d.collection_id = collection_id /\ d.path = path /\ d.active = 1}

\* SELECT * FROM documents WHERE collection_id = ? AND active = 1
listByCollection(docs, collection_id) ==
  {d \in docs : d.collection_id = collection_id /\ d.active = 1}

\* UPDATE documents SET <params> WHERE id = ?; params maps column names to values
updateDocument(db, id, params) ==
  LET olds == {d \in db.documents : d.id = id}
      Upd(d) == [f \in DOMAIN d |-> IF f \in DOMAIN params THEN params[f] ELSE d[f]]
  IN IF olds = {} \/ DOMAIN params = {} THEN db
     ELSE LET old == CHOOSE d \in olds : TRUE
              new == Upd(old)
          IN [db EXCEPT !.documents = (db.documents \ {old}) \cup {new},
                        !.fts = documents_au(db.fts, db.content, new)]

\* this.update(id, { active: 0 })
deactivate(db, id) == updateDocument(db, id, [active |-> 0])

RECURSIVE DeactivateAll(_, _)
DeactivateAll(db, ids) ==
  IF ids = {} THEN db
  ELSE LET i == CHOOSE i \in ids : TRUE IN DeactivateAll(deactivate(db, i), ids \ {i})

\* SELECT DISTINCT hash FROM documents WHERE active = 1
getActiveHashes(docs) == {d.hash : d \in {x \in docs : x.active = 1}}

\* a cleanup that keeps every hash some document references, active or not
OrphanedContent_AnyDocument(db) ==
  {c.hash : c \in {x \in db.content : x.hash \notin {d.hash : d \in db.documents}}}

\* the rows cleanupOrphanedContent deletes: hash NOT IN (active hashes)
OrphanedContent(db) == {c.hash : c \in {x \in db.content : x.hash \notin getActiveHashes(db.documents)}}

\* DELETE FROM content WHERE hash NOT IN (...)
cleanupOrphanedContent(db) == DeleteContentRows(db, OrphanedContent(db))

\* DELETE FROM documents WHERE collection_id = ?
deleteByCollection(db, collection_id) ==
  DeleteDocumentRows(db, {d \in db.documents : d.collection_id = collection_id})

\* SearchRepository.rebuildIndex: DELETE FROM documents_fts, then re-insert
rebuildIndex(db) ==
  [db EXCEPT !.fts =
     {[rowid |-> d.id, path |-> d.path, body |-> DocOfHash(db.content, d.hash)] :
        d \in {x \in db.documents : x.active = 1 /\ x.hash \in ContentHashes(db.content)}}]

\* ------------------------------------------------------------------------
\* CollectionRepository
\* ------------------------------------------------------------------------

getByName(colls, name) == {c \in colls : c.name = name}

getByPwdAndGlob(colls, pwd, glob) == {c \in colls : c.pwd = pwd /\ c.glob_pattern = glob}

\* INSERT INTO collections (the caller has checked CollectionInsertFails)
createCollection(db, id, name, pwd, glob, now) ==
  [db EXCEPT !.collections = db.collections \cup
     {[id |-> id, name |-> name, pwd |-> pwd, glob_pattern |-> glob, updated_at |-> now]}]

\* UPDATE collections SET <params> WHERE id = ?
updateCollection(db, id, params) ==
  [db EXCEPT !.collections =
     {IF c.id = id
        THEN [f \in DOMAIN c |-> IF f \in DOMAIN params THEN params[f] ELSE c[f]]
        ELSE c : c \in db.collections}]

\* ------------------------------------------------------------------------
\* Initial state and bookkeeping
\* ------------------------------------------------------------------------

Op(op, args, err, ret) == [op |-> op, args |-> args, err |-> err, ret |-> ret]

Init ==
  /\ fs = [p \in Paths |-> NoFile]
  /\ collections = {}
  /\ documents = {}
  /\ content = {}
  /\ documents_fts = {}
  /\ path_contexts = {}
  /\ content_vectors = {}
  /\ vectors_vec = {}
  /\ vecDim = 0
  /\ ollama_cache = {}
  /\ proc = NoProc /\ llm = NoLlm
  /\ legacy = NoLegacy
  /\ nextId = [collections |-> 1, documents |-> 1, path_contexts |-> 1]
  /\ clock = 0
  /\ repoOps = 0
  /\ pc = "idle"
  /\ run = NoRun
  /\ emb = NoRun
  /\ lastOp = Op("open", <<>>, NoErr, <<>>)
  /\ snap = NoSnap

\* a step of the environment or of a synchronous operation made while no run is in progress
Idle == pc = "idle"

\* the file system changes: a file is written or removed
FsWrite(path, body) ==
  /\ Idle
  /\ fs[path] # body
  /\ fs' = [fs EXCEPT ![path] = body]
  /\ lastOp' = Op("fs", <<>>, NoErr, <<>>)
  /\ snap' = NoSnap
  /\ UNCHANGED <<storeVars, vecVars, ollama_cache, legacy, proc, llm, nextId, clock, repoOps, pc, run, emb>>

\* ------------------------------------------------------------------------
\* CollectionManager
\* ------------------------------------------------------------------------

\* the name create() uses: the given one, else the basename of pwd
CreateName(pwd, name) == IF name = NoName THEN Basename(pwd) ELSE name

\* the error create() throws, NoErr when it creates
CreateError(colls, pwd, glob, name) ==
  IF getByName(colls, CreateName(pwd, name)) # {} THEN "name already exists"
  ELSE IF getByPwdAndGlob(colls, pwd, glob) # {} THEN "path and pattern already exists"
  ELSE IF CollectionInsertFails(colls, CreateName(pwd, name), pwd, glob) THEN "SQLITE_CONSTRAINT"
  ELSE NoErr

\* a create that resolves a name collision with a suffix instead of throwing
Create_SuffixOnCollision(pwd, glob, name) ==
  /\ Idle
  /\ clock < MaxClock
  /\ LET base == CreateName(pwd, name)
         unique == IF getByName(collections, base) # {} THEN base \o "-2" ELSE base
     IN IF getByPwdAndGlob(collections, pwd, glob) # {}
             \/ CollectionInsertFails(collections, unique, pwd, glob)
          THEN /\ lastOp' = Op("create", <<pwd, glob, name>>, "already exists", <<>>)
               /\ UNCHANGED <<storeVars, nextId, clock>>
          ELSE /\ SetDB(createCollection(DB, nextId.collections, unique, pwd, glob, clock + 1))
               /\ nextId' = [nextId EXCEPT !.collections = @ + 1]
               /\ clock' = clock + 1
               /\ lastOp' = Op("create", <<pwd, glob, name>>, NoErr, <<nextId.collections>>)
  /\ snap' = NoSnap
  /\ UNCHANGED <<fs, ollama_cache, legacy, proc, llm, vecVars, repoOps, pc, run, emb>>

\* CollectionManager.create
Create(pwd, glob, name) ==
  /\ Idle
  /\ clock < MaxClock
  /\ LET err == CreateError(collections, pwd, glob, name)
     IN IF err # NoErr
          THEN /\ lastOp' = Op("create", <<pwd, glob, name>>, err, <<>>)
               /\ UNCHANGED <<storeVars, nextId, clock>>
          ELSE /\ SetDB(createCollection(DB, nextId.collections, CreateName(pwd, name),
                                         pwd, glob, clock + 1))
               /\ nextId' = [nextId EXCEPT !.collections = @ + 1]
               /\ clock' = clock + 1
               /\ lastOp' = Op("create", <<pwd, glob, name>>, NoErr, <<nextId.collections>>)
  /\ snap' = NoSnap
  /\ UNCHANGED <<fs, ollama_cache, legacy, proc, llm, vecVars, repoOps, pc, run, emb>>

\* the error rename() throws, NoErr when it renames
RenameError(colls, oldName, newName) ==
  IF getByName(colls, oldName) = {} THEN "not found"
  ELSE IF getByName(colls, newName) # {} THEN "name already exists"
  ELSE IF \E c \in colls : c.name = newName THEN "SQLITE_CONSTRAINT"
  ELSE NoErr

\* CollectionManager.rename
Rename(oldName, newName) ==
  /\ Idle
  /\ clock < MaxClock
  /\ LET err == RenameError(collections, oldName, newName)
     IN IF err # NoErr
          THEN /\ lastOp' = Op("rename", <<oldName, newName>>, err, <<>>)
               /\ UNCHANGED <<storeVars, clock>>
          ELSE LET coll == CHOOSE c \in getByName(collections, oldName) : TRUE
               IN /\ SetDB(updateCollection(DB, coll.id,
                                            [name |-> newName, updated_at |-> clock + 1]))
                  /\ clock' = clock + 1
                  /\ lastOp' = Op("rename", <<oldName, newName>>, NoErr, <<>>)
  /\ snap' = NoSnap
  /\ UNCHANGED <<fs, ollama_cache, legacy, proc, llm, vecVars, nextId, repoOps, pc, run, emb>>

\* CollectionManager.remove
Remove(name) ==
  /\ Idle
  /\ IF getByName(collections, name) = {}
       THEN /\ lastOp' = Op("remove", <<name>>, "not found", <<>>)
            /\ UNCHANGED storeVars
       ELSE LET coll == CHOOSE c \in getByName(collections, name) : TRUE
                docCount == Cardinality(listByCollection(documents, coll.id))
                db1 == deleteByCollection(DB, coll.id)
                db2 == DeleteCollectionRow(db1, coll.id)
                db3 == cleanupOrphanedContent(db2)
            IN /\ SetDB(db3)
               /\ lastOp' = Op("remove", <<name>>, NoErr,
                               [deletedDocs |-> docCount,
                                cleanedHashes |-> Cardinality(OrphanedContent(db2))])
  /\ snap' = NoSnap
  /\ UNCHANGED <<fs, ollama_cache, legacy, proc, llm, vecVars, nextId, clock, repoOps, pc, run, emb>>

\* ------------------------------------------------------------------------
\* CollectionManager.indexFiles, one step per suspension point
\* ------------------------------------------------------------------------

\* the files the walk of this run returns, in walk order
WalkFiles(pwd, glob) == SeqOfSet(WalkOrder, {p \in FilesOf(pwd) : GlobMatches(glob, p)})

\* a comparison that never finds the hash unchanged
HashUnchanged_Never(existing, hash) == FALSE

\* existing.hash === hash
HashUnchanged(existing, hash) == existing.hash = hash

IndexResult(r) ==
  [indexed |-> r.indexed, updated |-> r.updated, unchanged |-> r.unchanged,
   removed |-> r.removed, orphanedContent |-> r.orphaned]

ZeroResult == [indexed |-> 0, updated |-> 0, unchanged |-> 0, removed |-> 0, orphanedContent |-> 0]

\* the run is a repetition: the previous operation was a completed indexFiles of
\* the same collection, so that nothing changed on disk or in the store in between
IsRepeat(pwd, glob) ==
  lastOp.op = "indexFiles" /\ lastOp.err = NoErr /\ lastOp.args = <<pwd, glob>>

\* indexFiles up to the end of the file walk: getOrCreate, scan, early return
IndexStart(pwd, glob, name) ==
  /\ Idle
  /\ clock < MaxClock
  /\ LET existing == getByPwdAndGlob(collections, pwd, glob)
         err == IF existing # {} THEN NoErr ELSE CreateError(collections, pwd, glob, name)
     IN IF err # NoErr
          THEN /\ lastOp' = Op("indexFiles", <<pwd, glob>>, err, <<>>)
               /\ snap' = NoSnap
               /\ UNCHANGED <<storeVars, nextId, clock, pc, run>>
          ELSE LET cid == IF existing # {} THEN (CHOOSE c \in existing : TRUE).id
                          ELSE nextId.collections
                   db1 == IF existing # {} THEN DB
                          ELSE createCollection(DB, cid, CreateName(pwd, name), pwd, glob, clock + 1)
                   files == WalkFiles(pwd, glob)
               IN /\ SetDB(db1)
                  /\ nextId' = IF existing # {} THEN nextId
                               ELSE [nextId EXCEPT !.collections = @ + 1]
                  /\ clock' = clock + 1
                  /\ snap' = IF IsRepeat(pwd, glob)
                               THEN [taken |-> TRUE, documents |-> documents, content |-> content]
                               ELSE NoSnap
                  /\ IF Len(files) = 0
                       THEN /\ lastOp' = Op("indexFiles", <<pwd, glob>>, NoErr, ZeroResult)
                            /\ UNCHANGED <<pc, run>>
                       ELSE /\ pc' = "index_file"
                            /\ run' = [active |-> TRUE, cid |-> cid, pwd |-> pwd, glob |-> glob,
                                       files |-> files, i |-> 1, seen |-> {}, indexed |-> 0,
                                       updated |-> 0, unchanged |-> 0, removed |-> 0,
                                       orphaned |-> 0, now |-> clock + 1]
                            /\ lastOp' = Op("indexFiles.walk", <<pwd, glob>>, NoErr, <<>>)
  /\ UNCHANGED <<fs, ollama_cache, legacy, proc, llm, vecVars, repoOps, emb>>

\* the body of the for loop for one file: the new store, the new counters and
\* the error thrown (the store keeps what was written before the throw)
ProcessFile(db, r, file, body, newId) ==
  LET hash == hashContent(body)
      title == extractTitle(body, file)
      found == getByCollectionAndPath(db.documents, r.cid, file)
      r1 == [r EXCEPT !.seen = @ \cup {file}, !.i = @ + 1]
  IN IF found # {}
       THEN LET existing == CHOOSE d \in found : TRUE
            IN IF HashUnchanged(existing, hash)
                 THEN IF existing.title # title
                        THEN [db |-> updateDocument(db, existing.id,
                                                    [title |-> title, modified_at |-> r.now]),
                              run |-> [r1 EXCEPT !.updated = @ + 1], err |-> NoErr, created |-> 0]
                        ELSE [db |-> db, run |-> [r1 EXCEPT !.unchanged = @ + 1],
                              err |-> NoErr, created |-> 0]
                 ELSE [db |-> updateDocument(insertContent(db, hash, body), existing.id,
                                             [hash |-> hash, title |-> title, modified_at |-> r.now]),
                       run |-> [r1 EXCEPT !.updated = @ + 1], err |-> NoErr, created |-> 0]
       ELSE LET db1 == insertContent(db, hash, body)
            IN IF DocumentInsertFails(db1, r.cid, file, hash)
                 THEN [db |-> db1, run |-> r1, err |-> "SQLITE_CONSTRAINT", created |-> 0]
                 ELSE [db |-> createDocument(db1, newId, r.cid, file, title, hash, 0),
                       run |-> [r1 EXCEPT !.indexed = @ + 1], err |-> NoErr, created |-> 1]

\* one iteration of the file loop
IndexFile ==
  /\ pc = "index_file"
  /\ LET file == run.files[run.i]
         res == ProcessFile(DB, run, file, fs[file], nextId.documents)
     IN /\ SetDB(res.db)
        /\ nextId' = [nextId EXCEPT !.documents = @ + res.created]
        /\ IF res.err # NoErr
             THEN /\ pc' = "idle"
                  /\ run' = NoRun
                  /\ lastOp' = Op("indexFiles", <<run.pwd, run.glob>>, res.err, <<>>)
             ELSE /\ pc' = IF res.run.i > Len(run.files) THEN "index_deactivate" ELSE "index_file"
                  /\ run' = res.run
                  /\ UNCHANGED lastOp
  /\ UNCHANGED snap
  /\ UNCHANGED <<fs, ollama_cache, legacy, proc, llm, vecVars, clock, repoOps, emb>>

\* the documents the run deactivates: the active ones of the collection not seen
NotSeen(docs, r) == {d \in listByCollection(docs, r.cid) : d.path \notin r.seen}

\* the deactivation loop after the walk
IndexDeactivate ==
  /\ pc = "index_deactivate"
  /\ LET gone == NotSeen(documents, run)
     IN /\ SetDB(DeactivateAll(DB, {d.id : d \in gone}))
        /\ run' = [run EXCEPT !.removed = Cardinality(gone)]
  /\ pc' = "index_cleanup"
  /\ UNCHANGED <<fs, ollama_cache, legacy, proc, llm, vecVars, nextId, clock, repoOps, emb, lastOp, snap>>

\* orphanedContent = cleanupOrphanedContent()
IndexCleanup ==
  /\ pc = "index_cleanup"
  /\ SetDB(cleanupOrphanedContent(DB))
  /\ run' = [run EXCEPT !.orphaned = Cardinality(OrphanedContent(DB))]
  /\ pc' = "index_finish"
  /\ UNCHANGED <<fs, ollama_cache, legacy, proc, llm, vecVars, nextId, clock, repoOps, emb, lastOp, snap>>

\* collectionRepo.update(updated_at) and the return
IndexFinish ==
  /\ pc = "index_finish"
  /\ SetDB(updateCollection(DB, run.cid, [updated_at |-> run.now]))
  /\ lastOp' = Op("indexFiles", <<run.pwd, run.glob>>, NoErr, IndexResult(run))
  /\ pc' = "idle"
  /\ run' = NoRun
  /\ UNCHANGED <<fs, ollama_cache, legacy, proc, llm, vecVars, nextId, clock, repoOps, emb, snap>>

\* ------------------------------------------------------------------------
\* ContextService.setContext
\* ------------------------------------------------------------------------

\* number of path context rows inserted in one behaviour
MaxContexts == 1

PathPrefixes == {""}

Contexts == {"root"}

\* INSERT ... ON CONFLICT(collection_id, path_prefix) DO UPDATE SET context
upsertContext(db, id, collection_id, path_prefix, context) ==
  IF \E x \in db.path_contexts : x.collection_id = collection_id /\ x.path_prefix = path_prefix
    THEN [db EXCEPT !.path_contexts =
            {IF x.collection_id = collection_id /\ x.path_prefix = path_prefix
               THEN [x EXCEPT !.context = context] ELSE x : x \in db.path_contexts}]
    ELSE [db EXCEPT !.path_contexts = db.path_contexts \cup
            {[id |-> id, collection_id |-> collection_id, path_prefix |-> path_prefix,
              context |-> context]}]

SetContextUpTo(maxContexts, collectionName, pathPrefix, context) ==
  /\ Idle
  /\ nextId.path_contexts <= maxContexts
  /\ IF getByName(collections, collectionName) = {}
       THEN /\ lastOp' = Op("setContext", <<collectionName>>, "not found", <<>>)
            /\ UNCHANGED <<storeVars, nextId>>
       ELSE LET coll == CHOOSE c \in getByName(collections, collectionName) : TRUE
            IN /\ SetDB(upsertContext(DB, nextId.path_contexts, coll.id, pathPrefix, context))
               /\ nextId' = [nextId EXCEPT !.path_contexts = @ + 1]
               /\ lastOp' = Op("setContext", <<collectionName>>, NoErr, <<>>)
  /\ snap' = NoSnap
  /\ UNCHANGED <<fs, ollama_cache, legacy, proc, llm, vecVars, clock, repoOps, pc, run, emb>>

SetContext(collectionName, pathPrefix, context) ==
  SetContextUpTo(MaxContexts, collectionName, pathPrefix, context)

\* ------------------------------------------------------------------------
\* Repository operations called directly
\* ------------------------------------------------------------------------

\* DocumentRepository.cleanupOrphanedContent
CleanupOrphanedContent ==
  /\ Idle
  /\ SetDB(cleanupOrphanedContent(DB))
  /\ lastOp' = Op("cleanupOrphanedContent",
                  <<IF lastOp.op = "cleanupOrphanedContent" THEN "again" ELSE "first">>,
                  NoErr, Cardinality(OrphanedContent(DB)))
  /\ snap' = NoSnap
  /\ UNCHANGED <<fs, ollama_cache, legacy, proc, llm, vecVars, nextId, clock, repoOps, pc, run, emb>>

\* DocumentRepository.deactivate
Deactivate(id) ==
  /\ Idle
  /\ repoOps < MaxRepoOps
  /\ SetDB(deactivate(DB, id))
  /\ repoOps' = repoOps + 1
  /\ lastOp' = Op("deactivate", <<id>>, NoErr, <<>>)
  /\ snap' = NoSnap
  /\ UNCHANGED <<fs, ollama_cache, legacy, proc, llm, vecVars, nextId, clock, pc, run, emb>>

\* DocumentRepository.delete
DeleteDocument(id) ==
  /\ Idle
  /\ repoOps < MaxRepoOps
  /\ SetDB(DeleteDocumentRows(DB, {d \in documents : d.id = id}))
  /\ repoOps' = repoOps + 1
  /\ lastOp' = Op("delete", <<id>>, NoErr, <<>>)
  /\ snap' = NoSnap
  /\ UNCHANGED <<fs, ollama_cache, legacy, proc, llm, vecVars, nextId, clock, pc, run, emb>>

\* DocumentRepository.update(id, { path }): UNIQUE(collection_id, path) may reject it
UpdatePath(id, path) ==
  /\ Idle
  /\ repoOps < MaxRepoOps
  /\ LET clash == \E d \in documents, e \in documents :
                     d.id = id /\ e.id # id /\ e.collection_id = d.collection_id /\ e.path = path
     IN IF clash
          THEN /\ lastOp' = Op("update", <<id, path>>, "SQLITE_CONSTRAINT", <<>>)
               /\ UNCHANGED storeVars
          ELSE /\ SetDB(updateDocument(DB, id, [path |-> path]))
               /\ lastOp' = Op("update", <<id, path>>, NoErr, <<>>)
  /\ repoOps' = repoOps + 1
  /\ snap' = NoSnap
  /\ UNCHANGED <<fs, ollama_cache, legacy, proc, llm, vecVars, nextId, clock, pc, run, emb>>

\* SearchRepository.rebuildIndex
RebuildIndex ==
  /\ Idle
  /\ SetDB(rebuildIndex(DB))
  /\ lastOp' = Op("rebuildIndex", <<>>, NoErr, <<>>)
  /\ snap' = NoSnap
  /\ UNCHANGED <<fs, ollama_cache, legacy, proc, llm, vecVars, nextId, clock, repoOps, pc, run, emb>>

\* ------------------------------------------------------------------------
\* The store part of the system
\* ------------------------------------------------------------------------

DocIds == {d.id : d \in documents}

\* the indexing pipeline: file changes, indexFiles runs on the two collections of
\* "/w/notes", collection removal, and the repository calls that soft-delete and clean up
NextIndex ==
  \/ \E p \in Paths, b \in {"# T", BigBody, NoFile} : FsWrite(p, b)
  \/ \E k \in {<<"/w/notes", "**/*.md">>, <<"/w/notes", "*.md">>}, n \in NameArgs :
       IndexStart(k[1], k[2], n)
  \/ IndexFile
  \/ IndexDeactivate
  \/ IndexCleanup
  \/ IndexFinish
  \/ \E n \in Names : Remove(n)
  \/ CleanupOrphanedContent
  \/ \E id \in DocIds : Deactivate(id)

SpecIndex == Init /\ [][NextIndex]_vars

\* ------------------------------------------------------------------------
\* Properties of the indexing pipeline
\* ------------------------------------------------------------------------

IndexPcs == {"index_file", "index_deactivate", "index_cleanup", "index_finish"}

\* the collection row an indexFiles call with these arguments works on
CollectionOf(args) == getByPwdAndGlob(collections, args[1], args[2])

\* the paths the walk of the run that just returned has yielded (the files did
\* not change since the walk: a file change is an operation of its own)
Walked(args) == Range(WalkFiles(args[1], args[2]))

\* C1: in every reachable state, the intermediate states of an indexFiles run
\* included, every documents row has a hash for which a content row exists
C1_DocumentHashHasContent ==
  \A d \in documents : d.hash \in ContentHashes(content)

\* an indexFiles run has deactivated a document and its cleanup has deleted
\* content, and documents remain
C1_Witness ==
  /\ pc = "index_finish"
  /\ run.removed > 0
  /\ run.orphaned > 0
  /\ documents # {}

\* C2: right after cleanupOrphanedContent() every content row is referenced by an
\* active document, and a call that directly follows another one returns 0
C2_CleanupLeavesNoOrphan ==
  lastOp.op = "cleanupOrphanedContent" =>
    /\ \A c \in content : \E d \in documents : d.active = 1 /\ d.hash = c.hash
    /\ lastOp.args = <<"again">> => lastOp.ret = 0

\* a second cleanupOrphanedContent() in a row, on a store that holds content and
\* an inactive document
C2_Witness ==
  /\ lastOp.op = "cleanupOrphanedContent"
  /\ lastOp.args = <<"again">>
  /\ content # {}
  /\ \E d \in documents : d.active = 0

\* C3: after indexFiles has returned, every document of the collection whose
\* path the walk did not return has active = 0, the empty walk included
C3_UnseenDeactivated ==
  (lastOp.op = "indexFiles" /\ lastOp.err = NoErr) =>
    \A c \in CollectionOf(lastOp.args) : \A d \in documents :
      (d.collection_id = c.id /\ d.path \notin Walked(lastOp.args)) => d.active = 0

\* C4: an indexFiles run that repeats the previous run on unchanged files returns
\* indexed = 0, updated = 0, removed = 0 and leaves documents and content as they were
C4_ReindexIdempotent ==
  (lastOp.op = "indexFiles" /\ snap.taken) =>
    /\ lastOp.err = NoErr
    /\ lastOp.ret.indexed = 0
    /\ lastOp.ret.updated = 0
    /\ lastOp.ret.removed = 0
    /\ documents = snap.documents
    /\ content = snap.content

\* a repeated run over at least two files has returned
C4_Witness ==
  /\ lastOp.op = "indexFiles"
  /\ snap.taken
  /\ lastOp.err = NoErr
  /\ lastOp.ret.unchanged >= 2

\* C9: a step of an indexFiles run never removes a documents row, and when the
\* run returns, the documents of the collection whose file is gone have active = 0
C9_SoftDeleteOnly ==
  [][/\ pc \in IndexPcs => \A d \in documents : \E e \in documents' : e.id = d.id
     /\ (pc \in IndexPcs \cup {"idle"} /\ lastOp'.op = "indexFiles" /\ lastOp'.err = NoErr) =>
          \A c \in getByPwdAndGlob(collections', lastOp'.args[1], lastOp'.args[2]) :
            \A d \in documents' :
              (d.collection_id = c.id /\ d.path \notin FilesOf(c.pwd)) => d.active = 0]_vars

\* ------------------------------------------------------------------------
\* The full-text mirror
\* ------------------------------------------------------------------------

\* one collection is indexed while files change, and the repository updates,
\* deactivates, deletes and rebuilds behind it
NextFts ==
  \/ \E p \in Paths, b \in {"# T", BigBody, NoFile} : FsWrite(p, b)
  \/ IndexStart("/w/notes", "**/*.md", NoName)
  \/ IndexFile
  \/ IndexDeactivate
  \/ IndexCleanup
  \/ IndexFinish
  \/ \E n \in Names : Remove(n)
  \/ CleanupOrphanedContent
  \/ \E id \in DocIds : Deactivate(id)
  \/ \E id \in DocIds : DeleteDocument(id)
  \/ \E id \in DocIds, p \in Paths : UpdatePath(id, p)
  \/ RebuildIndex

SpecFts == Init /\ [][NextFts]_vars

FtsRowsOf(d) == {f \in documents_fts : f.rowid = d.id}

\* every documents_fts row is the row of a document and shows its path and the
\* body stored for its current hash
FtsRowsMatch ==
  \A f \in documents_fts : \E d \in documents :
    d.id = f.rowid /\ f.path = d.path /\ f.body = DocOfHash(content, d.hash)

\* C8 as claimed: exactly one documents_fts row per documents row, with the
\* document's path and the body of its current hash, also after rebuildIndex
C8_FtsMirrorsDocuments ==
  /\ \A d \in documents : Cardinality(FtsRowsOf(d)) = 1
  /\ FtsRowsMatch

\* C8 as amended: exactly one documents_fts row per active document and at most
\* one per inactive document, each with the document's path and the body of its
\* current hash; rebuildIndex leaves no row for an inactive document
C8_FtsMirrorsActiveDocuments ==
  /\ \A d \in documents :
       /\ Cardinality(FtsRowsOf(d)) <= 1
       /\ d.active = 1 => Cardinality(FtsRowsOf(d)) = 1
  /\ FtsRowsMatch
  /\ lastOp.op = "rebuildIndex" => \A d \in documents : d.active = 0 => FtsRowsOf(d) = {}

\* the index was rebuilt while the store held an active and an inactive document
C8_Witness ==
  /\ lastOp.op = "rebuildIndex"
  /\ \E d \in documents : d.active = 0
  /\ \E d \in documents : d.active = 1 /\ d.hash = hashContent(BigBody)

\* ------------------------------------------------------------------------
\* Collection management
\* ------------------------------------------------------------------------

\* collections are created, renamed, given a context, indexed and removed
NextCollections ==
  \/ \E b \in {"# T", NoFile} : FsWrite("x.md", b)
  \/ \E k \in CollectionKeys, n \in NameArgs : Create(k[1], k[2], n)
  \/ \E o \in Names, n \in Names : Rename(o, n)
  \/ \E n \in Names : Remove(n)
  \/ \E k \in CollectionKeys, n \in NameArgs : IndexStart(k[1], k[2], n)
  \/ IndexFile
  \/ IndexDeactivate
  \/ IndexCleanup
  \/ IndexFinish
  \/ \E n \in Names, x \in PathPrefixes, c \in Contexts : SetContext(n, x, c)

SpecCollections == Init /\ [][NextCollections]_vars

\* C10: create called with a name or a (pwd, glob_pattern) pair that exists, and
\* rename called with a new name that exists, throw and leave collections,
\* documents and path_contexts as they were
C10_DuplicateRejected ==
  [][/\ (/\ lastOp'.op = "create"
         /\ \/ getByName(collections, CreateName(lastOp'.args[1], lastOp'.args[3])) # {}
            \/ getByPwdAndGlob(collections, lastOp'.args[1], lastOp'.args[2]) # {})
        => (lastOp'.err # NoErr /\ UNCHANGED <<collections, documents, path_contexts>>)
     /\ (lastOp'.op = "rename" /\ getByName(collections, lastOp'.args[2]) # {})
        => (lastOp'.err # NoErr /\ UNCHANGED <<collections, documents, path_contexts>>)]_vars

\* a create or a rename has been rejected on a store that holds a collection
\* with a document and a context
C10_Witness ==
  /\ lastOp.op \in {"create", "rename"}
  /\ lastOp.err = "name already exists"
  /\ documents # {}
  /\ path_contexts # {}

\* ------------------------------------------------------------------------
\* VectorRepository
\* ------------------------------------------------------------------------

\* the two vector tables as one value
VEC == [cv |-> content_vectors, vec |-> vectors_vec, dim |-> vecDim]

SetVEC(v) ==
  /\ content_vectors' = v.cv
  /\ vectors_vec' = v.vec
  /\ vecDim' = v.dim

\* ensureVecTable: keep a table of the same dimension, else drop and create
ensureVecTable(v, dimensions) ==
  IF v.dim = dimensions THEN v ELSE [v EXCEPT !.vec = {}, !.dim = dimensions]

\* INSERT OR REPLACE INTO content_vectors, key (hash, seq)
insertContentVector(v, hash, seq, pos, model) ==
  [v EXCEPT !.cv = {r \in v.cv : ~(r.hash = hash /\ r.seq = seq)} \cup
                     {[hash |-> hash, seq |-> seq, pos |-> pos, model |-> model]}]

\* INSERT OR REPLACE INTO vectors_vec, key hash_seq
insertVector(v, hash, seq) == [v EXCEPT !.vec = v.vec \cup {HashSeq(hash, seq)}]

insertVectorWithMetadata(v, hash, seq, pos, model) ==
  insertVector(insertContentVector(v, hash, seq, pos, model), hash, seq)

\* content LEFT JOIN content_vectors ON hash AND model WHERE cv.hash IS NULL
getHashesNeedingEmbedding(cont, cv, model) ==
  {c.hash : c \in {x \in cont : ~\E r \in cv : r.hash = x.hash /\ r.model = model}}

\* deleteVectorsByModel
deleteVectorsByModel(v, model) ==
  LET rows == {r \in v.cv : r.model = model}
  IN [v EXCEPT !.cv = v.cv \ rows, !.vec = v.vec \ {HashSeq(r.hash, r.seq) : r \in rows}]

\* cleanupOrphanedVectors: rows whose hash is not in content, then keys without a row
cleanupOrphanedVectors(v, cont) ==
  LET cv1 == {r \in v.cv : r.hash \in ContentHashes(cont)}
  IN [v EXCEPT !.cv = cv1, !.vec = v.vec \cap {HashSeq(r.hash, r.seq) : r \in cv1}]

\* ------------------------------------------------------------------------
\* The embedding runs, one step per provider call
\* ------------------------------------------------------------------------

\* the chunks of one hash: [hash, seq, pos]
ChunksOf(hash, body) ==
  LET ps == chunkDocument(body, CHUNK_BYTE_SIZE)
  IN [i \in 1..Len(ps) |-> [hash |-> hash, seq |-> i - 1, pos |-> ps[i]]]

RECURSIVE ChunkList(_, _, _)
\* the chunks of the hashes in order; skipEmpty drops bodies of zero bytes
ChunkList(hashes, cont, skipEmpty) ==
  IF hashes = <<>> THEN <<>>
  ELSE LET body == DocOfHash(cont, Head(hashes))
       IN (IF skipEmpty /\ ByteLength(body) = 0 THEN <<>> ELSE ChunksOf(Head(hashes), body))
          \o ChunkList(Tail(hashes), cont, skipEmpty)

\* vectorIndex: documents JOIN content LEFT JOIN content_vectors ON hash AND seq = 0
\* WHERE active = 1 AND v.hash IS NULL GROUP BY hash
hashesToEmbed(docs, cont, cv) ==
  {d.hash : d \in {x \in docs : /\ x.active = 1
                                /\ x.hash \in ContentHashes(cont)
                                /\ ~\E r \in cv : r.hash = x.hash /\ r.seq = 0}}

EmbedRun(variant, model, chunks) ==
  [active |-> TRUE, variant |-> variant, model |-> model, chunks |-> chunks, i |-> 1,
   dimensions |-> 0, chunksEmbedded |-> 0, errors |-> 0, calls |-> 0, failures |-> 0]

EmbedResult(e) ==
  [chunksEmbedded |-> e.chunksEmbedded, errors |-> e.errors, total |-> Len(e.chunks),
   calls |-> e.calls, failures |-> e.failures]

NothingToEmbed == [chunksEmbedded |-> 0, errors |-> 0, total |-> 0, calls |-> 0, failures |-> 0]

\* vectorIndex up to the first provider call: force, the query, the chunk list
VectorIndexStart(model, force) ==
  /\ Idle
  /\ LET v0 == IF force THEN [cv |-> {}, vec |-> {}, dim |-> 0] ELSE VEC
         hs == hashesToEmbed(documents, content, v0.cv)
         chunks == ChunkList(SeqOfSet(HashOrder, hs), content, TRUE)
     IN /\ SetVEC(v0)
        /\ IF chunks = <<>>
             THEN /\ lastOp' = Op("vectorIndex", <<model>>, NoErr, NothingToEmbed)
                  /\ proc' = closeDb(getDb(proc))
                  /\ UNCHANGED <<pc, emb>>
             ELSE /\ pc' = "embed_first"
                  /\ proc' = [getDb(proc) EXCEPT !.cursor = "hidden"]
                  /\ emb' = EmbedRun("vectorIndex", model, chunks)
                  /\ lastOp' = Op("vectorIndex.run", <<model>>, NoErr, <<>>)
  /\ snap' = NoSnap
  /\ UNCHANGED <<fs, ollama_cache, legacy, llm, storeVars, nextId, clock, repoOps, run>>

\* the embedding of the first chunk, outside any try block: it fixes the
\* dimension of the vec table; when the provider fails the exception leaves vectorIndex
VectorIndexFirst(ok) ==
  /\ pc = "embed_first"
  /\ LET ch == emb.chunks[1]
         e1 == [emb EXCEPT !.calls = @ + 1, !.failures = @ + (IF ok THEN 0 ELSE 1)]
     IN IF ~ok
          THEN /\ pc' = "idle"
               /\ emb' = NoRun
               /\ lastOp' = Op("vectorIndex", <<emb.model>>, "Failed to get embedding",
                               EmbedResult(e1))
               /\ proc' = MainCatch(closeDb(proc))
               /\ UNCHANGED vecVars
          ELSE LET v1 == ensureVecTable(VEC, EmbeddingDim(emb.model))
                   v2 == insertContentVector(insertVector(v1, ch.hash, ch.seq),
                                             ch.hash, ch.seq, ch.pos, emb.model)
                   e2 == [e1 EXCEPT !.chunksEmbedded = @ + 1, !.i = 2,
                                    !.dimensions = EmbeddingDim(emb.model)]
               IN /\ SetVEC(v2)
                  /\ IF Len(emb.chunks) = 1
                       THEN /\ pc' = "idle"
                            /\ emb' = NoRun
                            /\ lastOp' = Op("vectorIndex", <<emb.model>>, NoErr, EmbedResult(e2))
                            /\ proc' = closeDb([proc EXCEPT !.cursor = "shown"])
                       ELSE /\ pc' = "embed_rest"
                            /\ emb' = e2
                            /\ UNCHANGED <<lastOp, proc>>
  /\ UNCHANGED <<fs, ollama_cache, legacy, llm, storeVars, nextId, clock, repoOps, run, snap>>

\* one iteration of the loop over allChunks.slice(1): try { embed, insert } catch { errors++ }
VectorIndexNext(ok) ==
  /\ pc = "embed_rest"
  /\ LET ch == emb.chunks[emb.i]
         e1 == [emb EXCEPT !.calls = @ + 1, !.failures = @ + (IF ok THEN 0 ELSE 1), !.i = @ + 1]
         e2 == IF ok THEN [e1 EXCEPT !.chunksEmbedded = @ + 1] ELSE [e1 EXCEPT !.errors = @ + 1]
     IN /\ IF ok
             THEN SetVEC(insertContentVector(insertVector(VEC, ch.hash, ch.seq),
                                             ch.hash, ch.seq, ch.pos, emb.model))
             ELSE UNCHANGED vecVars
        /\ IF e2.i > Len(emb.chunks)
             THEN /\ pc' = "idle"
                  /\ emb' = NoRun
                  /\ lastOp' = Op("vectorIndex", <<emb.model>>, NoErr, EmbedResult(e2))
                  /\ proc' = closeDb([proc EXCEPT !.cursor = "shown"])
             ELSE /\ pc' = "embed_rest"
                  /\ emb' = e2
                  /\ UNCHANGED <<lastOp, proc>>
  /\ UNCHANGED <<fs, ollama_cache, legacy, llm, storeVars, nextId, clock, repoOps, run, snap>>

\* VectorService.embedDocuments up to the first provider call
EmbedDocumentsStart(model) ==
  /\ Idle
  /\ LET hs == getHashesNeedingEmbedding(content, content_vectors, model)
         chunks == ChunkList(SeqOfSet(HashOrder, hs), content, FALSE)
     IN IF hs = {}
          THEN /\ lastOp' = Op("embedDocuments", <<model>>, NoErr, NothingToEmbed)
               /\ UNCHANGED <<pc, emb>>
          ELSE /\ pc' = "embed_docs"
               /\ emb' = EmbedRun("embedDocuments", model, chunks)
               /\ lastOp' = Op("embedDocuments.run", <<model>>, NoErr, <<>>)
  /\ snap' = NoSnap
  /\ UNCHANGED <<fs, ollama_cache, legacy, proc, llm, storeVars, vecVars, nextId, clock, repoOps, run>>

\* one chunk of embedDocuments: a null result is counted as skipped; the first
\* result of the run fixes the dimension of the vec table
EmbedDocumentsNext(ok) ==
  /\ pc = "embed_docs"
  /\ LET ch == emb.chunks[emb.i]
         e1 == [emb EXCEPT !.calls = @ + 1, !.failures = @ + (IF ok THEN 0 ELSE 1), !.i = @ + 1]
         e2 == IF ok THEN [e1 EXCEPT !.chunksEmbedded = @ + 1,
                                     !.dimensions = EmbeddingDim(emb.model)]
               ELSE [e1 EXCEPT !.errors = @ + 1]
         v1 == IF emb.dimensions = 0 THEN ensureVecTable(VEC, EmbeddingDim(emb.model)) ELSE VEC
     IN /\ IF ok
             THEN SetVEC(insertVectorWithMetadata(v1, ch.hash, ch.seq, ch.pos, emb.model))
             ELSE UNCHANGED vecVars
        /\ IF e2.i > Len(emb.chunks)
             THEN /\ pc' = "idle"
                  /\ emb' = NoRun
                  /\ lastOp' = Op("embedDocuments", <<emb.model>>, NoErr, EmbedResult(e2))
             ELSE /\ pc' = "embed_docs"
                  /\ emb' = e2
                  /\ UNCHANGED lastOp
  /\ UNCHANGED <<fs, ollama_cache, legacy, proc, llm, storeVars, nextId, clock, repoOps, run, snap>>


\* VectorRepository.ensureVecTable called on its own
EnsureVecTable(dimensions) ==
  /\ Idle
  /\ SetVEC(ensureVecTable(VEC, dimensions))
  /\ lastOp' = Op("ensureVecTable", <<dimensions>>, NoErr, <<>>)
  /\ snap' = NoSnap
  /\ UNCHANGED <<fs, ollama_cache, legacy, proc, llm, storeVars, nextId, clock, repoOps, pc, run, emb>>

\* VectorRepository.deleteVectorsByModel
DeleteVectorsByModel(model) ==
  /\ Idle
  /\ SetVEC(deleteVectorsByModel(VEC, model))
  /\ lastOp' = Op("deleteVectorsByModel", <<model>>, NoErr, <<>>)
  /\ snap' = NoSnap
  /\ UNCHANGED <<fs, ollama_cache, legacy, proc, llm, storeVars, nextId, clock, repoOps, pc, run, emb>>

\* VectorRepository.cleanupOrphanedVectors
CleanupOrphanedVectors ==
  /\ Idle
  /\ SetVEC(cleanupOrphanedVectors(VEC, content))
  /\ lastOp' = Op("cleanupOrphanedVectors", <<>>, NoErr, <<>>)
  /\ snap' = NoSnap
  /\ UNCHANGED <<fs, ollama_cache, legacy, proc, llm, storeVars, nextId, clock, repoOps, pc, run, emb>>

\* the cleanup command: the cache, the vectors of hashes without an active
\* document, then the inactive documents rows
CleanupCommand ==
  /\ Idle
  /\ LET act == getActiveHashes(documents)
         orphans == {r \in content_vectors : r.hash \notin act}
         v1 == [VEC EXCEPT !.vec = VEC.vec \ {HashSeq(r.hash, r.seq) : r \in orphans},
                           !.cv = VEC.cv \ orphans]
         db1 == DeleteDocumentRows(DB, {d \in documents : d.active = 0})
     IN /\ ollama_cache' = {}
        /\ SetVEC(v1)
        /\ SetDB(db1)
        /\ lastOp' = Op("cleanup", <<>>, NoErr, Cardinality(orphans))
  /\ snap' = NoSnap
  /\ UNCHANGED <<fs, legacy, proc, llm, nextId, clock, repoOps, pc, run, emb>>

\* ------------------------------------------------------------------------
\* The vector part of the system
\* ------------------------------------------------------------------------

NextVectors ==
  \/ \E b \in {"# T", NoFile} : FsWrite("x.md", b)
  \/ \E b \in {BigBody, NoFile} : FsWrite("sub/y.md", b)
  \/ IndexStart("/w/notes", "**/*.md", NoName)
  \/ IndexFile
  \/ IndexDeactivate
  \/ IndexCleanup
  \/ IndexFinish
  \/ \E m \in Models, force \in BOOLEAN : VectorIndexStart(m, force)
  \/ \E ok \in BOOLEAN : VectorIndexFirst(ok)
  \/ \E ok \in BOOLEAN : VectorIndexNext(ok)
  \/ \E m \in Models : EmbedDocumentsStart(m)
  \/ \E ok \in BOOLEAN : EmbedDocumentsNext(ok)
  \/ \E dimensions \in Dims : EnsureVecTable(dimensions)
  \/ \E m \in Models : DeleteVectorsByModel(m)
  \/ CleanupOrphanedVectors
  \/ CleanupCommand

SpecVectors == Init /\ [][NextVectors]_vars

\* the keys of the content_vectors rows
VectorKeys(cv) == {HashSeq(r.hash, r.seq) : r \in cv}

\* the last operation was a whole embedding run
RunEnded == lastOp.op \in {"vectorIndex", "embedDocuments"}

\* the set of hashes the query of the run's entry point still returns for the model
StillNeeding(op, model) ==
  IF op = "embedDocuments"
    THEN getHashesNeedingEmbedding(content, content_vectors, model)
    ELSE hashesToEmbed(documents, content, content_vectors)

\* the hashes that have an active document with a body of at least one byte
ActiveNonEmptyHashes ==
  {h \in getActiveHashes(documents) :
     h \in ContentHashes(content) /\ ByteLength(DocOfHash(content, h)) > 0}

\* C5: in every reachable state content_vectors has a row (hash, seq) if and
\* only if vectors_vec has the row keyed "{hash}_{seq}"
C5_VectorTablesAgree == VectorKeys(content_vectors) = vectors_vec

\* C6: after an embedding run for model M, a hash with an active document of
\* non-empty body is excluded from the hashes still needing embedding for M
\* if and only if content_vectors holds its row with seq = 0 and model = M
C6_ExcludedIffSeqZeroOfModel ==
  RunEnded =>
    \A h \in ActiveNonEmptyHashes :
      (h \notin StillNeeding(lastOp.op, lastOp.args[1]))
        <=> (\E r \in content_vectors :
               r.hash = h /\ r.seq = 0 /\ r.model = lastOp.args[1])

\* C7: a provider failure on any chunk of an embedding run, the first
\* included, is counted as an error and the run goes on: at the end of a run
\* every chunk was attempted, every failure was counted, and the run did not abort
C7_FailureNeverAborts ==
  RunEnded =>
    /\ lastOp.err = NoErr
    /\ lastOp.ret.calls = lastOp.ret.total
    /\ lastOp.ret.errors = lastOp.ret.failures


\* ------------------------------------------------------------------------
\* getOrCreateCollection and the names of auto-created collections
\* ------------------------------------------------------------------------

\* the name with the suffix -N
SuffixName(name, suffix) == name \o "-" \o ToString(suffix)

\* name LIKE 'prefix%' for the names of the model (letters, digits and "-")
Like(name, prefix) == Len(name) >= Len(prefix) /\ SubSeq(name, 1, Len(prefix)) = prefix

RECURSIVE UniqueSuffix(_, _, _)
\* the while loop: the first suffix from `suffix` on whose name is not among the names
UniqueSuffix(names, name, suffix) ==
  IF SuffixName(name, suffix) \in names THEN UniqueSuffix(names, name, suffix + 1) ELSE suffix

\* getOrCreateCollection(db, pwd, globPattern, name)
GetOrCreateCollection(pwd, glob, name) ==
  /\ Idle
  /\ clock < MaxClock
  /\ LET base == CreateName(pwd, name)
         existing == getByPwdAndGlob(collections, pwd, glob)
         allCollections == {c.name : c \in {x \in collections : Like(x.name, base)}}
         unique == IF CollectionInsertFails(collections, base, pwd, glob)
                     THEN SuffixName(base, UniqueSuffix(allCollections, base, 2))
                     ELSE base
     IN IF existing # {}
          THEN /\ lastOp' = Op("getOrCreateCollection", <<pwd, glob, name>>, NoErr,
                               <<(CHOOSE c \in existing : TRUE).id>>)
               /\ UNCHANGED <<storeVars, nextId, clock>>
          ELSE IF CollectionInsertFails(collections, unique, pwd, glob)
                 THEN /\ lastOp' = Op("getOrCreateCollection", <<pwd, glob, name>>,
                                      "SQLITE_CONSTRAINT", <<>>)
                      /\ UNCHANGED <<storeVars, nextId, clock>>
                 ELSE /\ SetDB(createCollection(DB, nextId.collections, unique, pwd, glob, clock + 1))
                      /\ nextId' = [nextId EXCEPT !.collections = @ + 1]
                      /\ clock' = clock + 1
                      /\ lastOp' = Op("getOrCreateCollection", <<pwd, glob, name>>, NoErr,
                                      <<nextId.collections>>)
  /\ snap' = NoSnap
  /\ UNCHANGED <<fs, ollama_cache, legacy, proc, llm, vecVars, repoOps, pc, run, emb>>

\* the names a rename can give: one is the first suffixed name of the basename
RenameTargets == {"docs", "notes-2"}

NextAutoName ==
  \/ \E b \in {"# T", NoFile} : FsWrite("x.md", b)
  \/ \E k \in CollectionKeys : GetOrCreateCollection(k[1], k[2], NoName)
  \/ \E k \in CollectionKeys : IndexStart(k[1], k[2], NoName)
  \/ IndexFile
  \/ IndexDeactivate
  \/ IndexCleanup
  \/ IndexFinish
  \/ \E o \in Names \cup RenameTargets, n \in RenameTargets : Rename(o, n)
  \/ \E n \in Names \cup RenameTargets : Remove(n)

SpecAutoName == Init /\ [][NextAutoName]_vars

\* the auto-creating call getOrCreateCollection(pwd, glob) or indexFiles(pwd, glob)
\* without a name is made for a new pair while the basename of pwd is taken
AutoCreateOnCollision(pwd, glob) ==
  /\ Idle
  /\ clock < MaxClock
  /\ getByPwdAndGlob(collections, pwd, glob) = {}
  /\ getByName(collections, Basename(pwd)) # {}
  /\ \/ lastOp'.op = "getOrCreateCollection" /\ lastOp'.args = <<pwd, glob, NoName>>
     \/ lastOp'.op \in {"indexFiles", "indexFiles.walk"} /\ lastOp'.args = <<pwd, glob>>

\* N is the smallest integer >= 2 for which basename-N is not a collection name
SmallestUnused(colls, name, N) ==
  /\ N >= 2
  /\ getByName(colls, SuffixName(name, N)) = {}
  /\ \A m \in 2..(N - 1) : getByName(colls, SuffixName(name, m)) # {}

NamesDistinct(colls) == \A c1, c2 \in colls : c1.name = c2.name => c1 = c2

\* C11: an auto-creating call for a new (pwd, glob) pair whose basename is
\* already a collection name creates the collection named basename-N with N
\* the smallest integer >= 2 whose name is unused, and the names stay distinct
C11_AutoNameSuffix ==
  [][\A k \in CollectionKeys :
       AutoCreateOnCollision(k[1], k[2]) =>
         /\ NamesDistinct(collections')
         /\ \E c \in collections' \ collections :
              /\ c.pwd = k[1] /\ c.glob_pattern = k[2]
              /\ \E N \in 2..(Cardinality(collections) + 2) :
                   c.name = SuffixName(Basename(k[1]), N)
                   /\ SmallestUnused(collections, Basename(k[1]), N)]_vars


\* ------------------------------------------------------------------------
\* Removing one collection among several
\* ------------------------------------------------------------------------

NextRemove ==
  \/ \E b \in {"# T", BigBody, NoFile} : FsWrite("x.md", b)
  \/ \E b \in {"# T", NoFile} : FsWrite("sub/y.md", b)
  \/ \E g \in Globs, n \in NameArgs : IndexStart("/w/notes", g, n)
  \/ IndexFile
  \/ IndexDeactivate
  \/ IndexCleanup
  \/ IndexFinish
  \/ \E n \in Names, p \in PathPrefixes, c \in Contexts : SetContext(n, p, c)
  \/ \E id \in DocIds : Deactivate(id)
  \/ \E n \in Names : Remove(n)

SpecRemove == Init /\ [][NextRemove]_vars

\* the rows of a table that belong to other collections than the one given
OfOthers(rows, collection_id) == {r \in rows : r.collection_id # collection_id}

\* C12: after remove(name) no documents row and no path_contexts row refers
\* to the removed collection, no content row lacks an active document, and
\* the documents, the contexts and the actively referenced content of the
\* other collections are what they were
C12_RemoveFrame ==
  [][(lastOp' # lastOp /\ lastOp'.op = "remove" /\ lastOp'.err = NoErr) =>
       LET removed == (CHOOSE c \in getByName(collections, lastOp'.args[1]) : TRUE).id
       IN /\ \A d \in documents' : d.collection_id # removed
          /\ \A x \in path_contexts' : x.collection_id # removed
          /\ ContentHashes(content') \subseteq getActiveHashes(documents')
          /\ OfOthers(documents', removed) = OfOthers(documents, removed)
          /\ OfOthers(path_contexts', removed) = OfOthers(path_contexts, removed)
          /\ \A c \in content :
               c.hash \in getActiveHashes(OfOthers(documents, removed)) => c \in content']_vars


\* ------------------------------------------------------------------------
\* SearchRepository and SearchService: searchFTS and searchVector
\* ------------------------------------------------------------------------

\* the queries: no term at all, a term of the short body, a term of every path
Queries == {"", "t", "md"}

\* the collection filter of a search: none, an existing name, a name no collection has
CollectionFilters == {NoName, "notes", "ghost"}

\* the limit option; 20 is the default
Limits == {1, 20}

\* buildFTS5Query: the terms of the query, sanitized and lower-cased
buildFTS5Query(query) == IF query = "" THEN {} ELSE {query}

\* the unicode61 tokens of a path or a body
Tokens(text) ==
  IF text = "# T" THEN {"t"}
  ELSE IF text = BigBody THEN {"aaa...a"}
  ELSE IF text = "x.md" THEN {"x", "md"}
  ELSE IF text = "sub/y.md" THEN {"sub", "y", "md"}
  ELSE {}

\* documents_fts MATCH '"term"*': some token of a column starts with each term
FtsMatch(row, terms) ==
  \A t \in terms : \E tok \in Tokens(row.path) \cup Tokens(row.body) : Like(tok, t)

\* the first n elements
Take(s, n) == SubSeq(s, 1, IF n < Len(s) THEN n ELSE Len(s))

\* the ids in increasing order
IdOrder == [i \in 1..(nextId.documents - 1) |-> i]

\* the file of a document: qmd://collection/path
FileOf(d) ==
  "qmd://" \o (CHOOSE c \in collections : c.id = d.collection_id).name \o "/" \o d.path

\* collections[0] resolved to an id; 0 stands for undefined (no filter given, or
\* getByName returned null)
ResolveCollectionId(filter) ==
  IF filter = NoName \/ getByName(collections, filter) = {} THEN 0
  ELSE (CHOOSE c \in getByName(collections, filter) : TRUE).id

\* SearchRepository.searchFTS: the active documents whose fts row matches, of
\* the collection when an id is given, in rank order (the bm25 rank is
\* abstracted to the rowid), cut at limit
repoSearchFTS(query, limit, collectionId) ==
  LET terms == buildFTS5Query(query)
      hits == {d \in documents :
                 /\ d.active = 1
                 /\ \E c \in collections : c.id = d.collection_id
                 /\ \E f \in documents_fts : f.rowid = d.id /\ FtsMatch(f, terms)
                 /\ (collectionId # 0 => d.collection_id = collectionId)}
  IN IF terms = {} THEN <<>>
     ELSE Take(SeqOfSet(IdOrder, {d.id : d \in hits}), limit)

\* SearchService.searchFTS: the files of the rows
searchFTS(query, filter, limit) ==
  LET ids == repoSearchFTS(query, limit, ResolveCollectionId(filter))
  IN [i \in 1..Len(ids) |-> FileOf(CHOOSE d \in documents : d.id = ids[i])]

SearchFTS(query, filter, limit) ==
  /\ Idle
  /\ lastOp' = Op("searchFTS", <<query, filter, limit>>, NoErr, searchFTS(query, filter, limit))
  /\ snap' = NoSnap
  /\ UNCHANGED <<fs, ollama_cache, legacy, proc, llm, storeVars, vecVars, nextId, clock, repoOps, pc, run, emb>>

\* the keys of vectors_vec by increasing distance to the query (the distance is
\* abstracted to the order of hash and seq)
KeyOrder == Flatten([i \in 1..Len(HashOrder) |-> <<HashSeq(HashOrder[i], 0), HashSeq(HashOrder[i], 1)>>])

\* VectorRepository.searchVectors: the k nearest rows of vectors_vec joined with
\* content_vectors; with an id only hashes with an active document of the collection
searchVectors(k, collectionId) ==
  LET nearest == Take(SeqOfSet(KeyOrder, vectors_vec), k)
      joined(key) == {r \in content_vectors : HashSeq(r.hash, r.seq) = key}
      keep(key) == /\ joined(key) # {}
                   /\ collectionId # 0 =>
                        \E d \in documents :
                          /\ d.hash = (CHOOSE r \in joined(key) : TRUE).hash
                          /\ d.collection_id = collectionId
                          /\ d.active = 1
      kept == SeqOfSet(nearest, {nearest[i] : i \in {j \in 1..Len(nearest) : keep(nearest[j])}})
  IN [i \in 1..Len(kept) |-> CHOOSE r \in joined(kept[i]) : TRUE]

\* the rows getDocumentInfoByHash can return: active documents of the hash
\* with their collection and content (LIMIT 1 without ORDER BY)
DocumentInfosByHash(hash) ==
  {d \in documents : /\ d.hash = hash /\ d.active = 1
                     /\ d.hash \in ContentHashes(content)
                     /\ \E c \in collections : c.id = d.collection_id}

RECURSIVE Dedupe(_)
\* a Map keyed by file keeps the first entry of each key (the nearest one)
Dedupe(files) ==
  IF files = <<>> THEN <<>>
  ELSE <<Head(files)>> \o Dedupe(SelectSeq(Tail(files), LAMBDA f : f # Head(files)))

\* SearchService.searchVector; info gives the document getDocumentInfoByHash finds for a hash
searchVector(query, model, filter, limit, ok, info) ==
  IF vecDim = 0 \/ ~ok THEN <<>>
  ELSE LET rows == searchVectors(limit * 3, ResolveCollectionId(filter))
           found == SelectSeq(rows, LAMBDA r : DocumentInfosByHash(r.hash) # {})
           files == [i \in 1..Len(found) |-> FileOf(info[found[i].hash])]
       IN Take(Dedupe(files), limit)

SearchVector(query, model, filter, limit, ok) ==
  /\ Idle
  /\ \E info \in [{h \in Hashes : DocumentInfosByHash(h) # {}} -> documents] :
       /\ \A h \in DOMAIN info : info[h] \in DocumentInfosByHash(h)
       /\ IF vecDim # 0 /\ ok /\ EmbeddingDim(model) # vecDim
            THEN lastOp' = Op("searchVector", <<query, filter, limit>>, "dimension mismatch", <<>>)
            ELSE lastOp' = Op("searchVector", <<query, filter, limit>>, NoErr,
                              searchVector(query, model, filter, limit, ok, info))
  /\ snap' = NoSnap
  /\ UNCHANGED <<fs, ollama_cache, legacy, proc, llm, storeVars, vecVars, nextId, clock, repoOps, pc, run, emb>>

NextSearch ==
  \/ \E b \in {"# T", NoFile} : FsWrite("x.md", b)
  \/ \E b \in {BigBody, NoFile} : FsWrite("sub/y.md", b)
  \/ IndexStart("/w/notes", "**/*.md", NoName)
  \/ IndexFile
  \/ IndexDeactivate
  \/ IndexCleanup
  \/ IndexFinish
  \/ VectorIndexStart("embeddinggemma", FALSE)
  \/ \E ok \in BOOLEAN : VectorIndexFirst(ok)
  \/ \E ok \in BOOLEAN : VectorIndexNext(ok)
  \/ \E q \in Queries, f \in CollectionFilters, l \in Limits : SearchFTS(q, f, l)
  \/ \E m \in Models, f \in CollectionFilters, l \in Limits, ok \in BOOLEAN :
       SearchVector("t", m, f, l, ok)

SpecSearch == Init /\ [][NextSearch]_vars

\* C13: searchFTS and searchVector called with a collection filter naming a
\* collection that does not exist return the empty list
C13_UnknownCollectionEmpty ==
  (/\ lastOp.op \in {"searchFTS", "searchVector"}
   /\ lastOp.err = NoErr
   /\ lastOp.args[2] # NoName
   /\ getByName(collections, lastOp.args[2]) = {})
    => lastOp.ret = <<>>


\* ------------------------------------------------------------------------
\* Rank fusion and the blended scores of the query tool
\* ------------------------------------------------------------------------

\* longest rank list of the model
MaxListLen == 2

Files == {"qmd://notes/a.md", "qmd://notes/b.md", "qmd://notes/c.md"}

\* the rank lists: sequences of distinct files
RankLists ==
  UNION {{l \in [1..n -> Files] : \A i, j \in 1..n : l[i] = l[j] => i = j} : n \in 0..MaxListLen}

\* the weights of two lists: equal ones and unequal ones
WeightPairs == {<<1, 1>>, <<2, 1>>}

\* k of reciprocalRankFusion
K == 60

RECURSIVE RankProduct(_)
RankProduct(n) == IF n = 0 THEN 1 ELSE (K + n) * RankProduct(n - 1)

\* scores are kept as integers: the number of units of 1 / ScoreScale, a
\* multiple of 100 and of every k + rank + 1 of the model
ScoreScale == 100 * RankProduct(MaxListLen)

\* a term that depends on the position of the list among the lists
RrfTerm_ByListIndex(weight, rank, listIdx) == (weight * ScoreScale) \div (K + rank + listIdx)

\* weight / (k + rank + 1), rank counted from 0
RrfTerm(weight, rank, listIdx) == (weight * ScoreScale) \div (K + rank + 1)

\* the bonus of the best rank: 0.05 for the first place, 0.02 for the next two
RankBonus(bestRank) ==
  IF bestRank = 0 THEN 5 * (ScoreScale \div 100)
  ELSE IF bestRank <= 2 THEN 2 * (ScoreScale \div 100)
  ELSE 0

\* scores.get / scores.set for one result: the Map keeps the insertion order
Accumulate(entries, file, term, rank) ==
  IF \E i \in 1..Len(entries) : entries[i].file = file
    THEN [i \in 1..Len(entries) |->
            IF entries[i].file = file
              THEN [entries[i] EXCEPT !.score = @ + term,
                                      !.bestRank = IF rank < @ THEN rank ELSE @]
              ELSE entries[i]]
    ELSE Append(entries, [file |-> file, score |-> term, bestRank |-> rank])

RECURSIVE AccumulateList(_, _, _, _, _)
\* the inner loop over one list from rank on (rank counted from 0)
AccumulateList(entries, results, weight, rank, listIdx) ==
  IF rank >= Len(results) THEN entries
  ELSE AccumulateList(Accumulate(entries, results[rank + 1],
                                 RrfTerm(weight, rank, listIdx), rank),
                      results, weight, rank + 1, listIdx)

RECURSIVE AccumulateLists(_, _, _, _)
\* the outer loop over the lists from listIdx on (counted from 1)
AccumulateLists(entries, resultLists, weights, listIdx) ==
  IF listIdx > Len(resultLists) THEN entries
  ELSE AccumulateLists(AccumulateList(entries, resultLists[listIdx], weights[listIdx], 0, listIdx),
                       resultLists, weights, listIdx + 1)

RECURSIVE InsertDesc(_, _)
\* one step of a stable sort by descending score: e goes behind every element
\* whose score is not smaller
InsertDesc(sorted, e) ==
  IF sorted = <<>> THEN <<e>>
  ELSE IF Head(sorted).score >= e.score THEN <<Head(sorted)>> \o InsertDesc(Tail(sorted), e)
  ELSE <<e>> \o sorted

RECURSIVE SortDesc(_)
\* Array.prototype.sort((a, b) => b.score - a.score), which is stable
SortDesc(s) == IF s = <<>> THEN <<>> ELSE InsertDesc(SortDesc(SubSeq(s, 1, Len(s) - 1)), s[Len(s)])

\* reciprocalRankFusion(resultLists, weights)
reciprocalRankFusion(resultLists, weights) ==
  LET entries == AccumulateLists(<<>>, resultLists, weights, 1)
  IN SortDesc([i \in 1..Len(entries) |->
                 [file |-> entries[i].file,
                  score |-> entries[i].score + RankBonus(entries[i].bestRank)]])

\* the fusion of two rank lists
Fuse(L1, L2, weights) ==
  /\ Idle
  /\ lastOp' = Op("reciprocalRankFusion", <<L1, L2, weights>>, NoErr,
                  reciprocalRankFusion(<<L1, L2>>, weights))
  /\ snap' = NoSnap
  /\ UNCHANGED <<fs, ollama_cache, legacy, proc, llm, storeVars, vecVars, nextId, clock, repoOps, pc, run, emb>>


\* the scores the reranker gives, in hundredths
RerankScores == {0, 50, 100}

\* the minScore and limit arguments of the query tool; minScore in hundredths,
\* limit 0 stands for a limit that is not given
MinScores == {0, 50}

QueryLimits == {0, 1}

\* SearchService.rerank: the scores of the reranker, then a stable sort by descending score
rerank(results, scoreOf) ==
  SortDesc([i \in 1..Len(results) |-> [file |-> results[i].file, score |-> scoreOf[results[i].file]]])

\* position of the file among the candidates, counted from 1 (rrfRankMap)
RrfRank(candidates, file) == CHOOSE i \in 1..Len(candidates) : candidates[i].file = file

\* the weight of the fused rank, in hundredths
RrfWeight(rrfRank) == IF rrfRank <= 3 THEN 75 ELSE IF rrfRank <= 10 THEN 60 ELSE 40

\* rrfWeight * (1 / rrfRank) + (1 - rrfWeight) * score, rounded to hundredths
\* (Math.round(blendedScore * 100) / 100); exact for ranks up to 10
BlendedScore(rrfRank, score) ==
  LET w == RrfWeight(rrfRank)
      b == (w * 100 * 2520) \div rrfRank + (100 - w) * score * 2520
  IN (b + 126000) \div 252000

\* the query tool from the fused list on: the first 30 candidates are reranked,
\* every reranked result gets its blended score, the results below minScore
\* are dropped and the first limit (10 without a limit) are returned
BlendResults(fused, scoreOf, minScore, limit) ==
  LET candidates == Take(fused, 30)
      reranked == rerank(candidates, scoreOf)
      blended == [i \in 1..Len(reranked) |->
                    [file |-> reranked[i].file,
                     score |-> BlendedScore(RrfRank(candidates, reranked[i].file),
                                            reranked[i].score)]]
  IN Take(SelectSeq(blended, LAMBDA r : r.score >= minScore), IF limit = 0 THEN 10 ELSE limit)

\* the query tool after the fusion of its ranked lists
QueryBlend(minScore, limit) ==
  /\ Idle
  /\ lastOp.op = "reciprocalRankFusion"
  /\ \E scoreOf \in [{lastOp.ret[i].file : i \in 1..Len(lastOp.ret)} -> RerankScores] :
       lastOp' = Op("query", <<lastOp.ret, scoreOf, minScore, limit>>, NoErr,
                    BlendResults(lastOp.ret, scoreOf, minScore, limit))
  /\ snap' = NoSnap
  /\ UNCHANGED <<fs, ollama_cache, legacy, proc, llm, storeVars, vecVars, nextId, clock, repoOps, pc, run, emb>>

NextRanking ==
  \/ \E L1, L2 \in RankLists, w \in WeightPairs : Fuse(L1, L2, w)
  \/ \E m \in MinScores, l \in QueryLimits : QueryBlend(m, l)

SpecRanking == Init /\ [][NextRanking]_vars

\* C14: the list a hybrid query returns is in non-increasing order of blended
\* score, equal scores in the order of the fused list, holds only results
\* whose blended score is at least minScore, and has at most limit entries
C14_BlendedOrder ==
  lastOp.op = "query" =>
    LET fused == lastOp.args[1]
        minScore == lastOp.args[3]
        limit == IF lastOp.args[4] = 0 THEN 10 ELSE lastOp.args[4]
        ret == lastOp.ret
    IN /\ Len(ret) <= limit
       /\ \A i \in 1..Len(ret) : ret[i].score >= minScore
       /\ \A i, j \in 1..Len(ret) :
            i < j => \/ ret[i].score > ret[j].score
                     \/ /\ ret[i].score = ret[j].score
                        /\ RrfRank(fused, ret[i].file) < RrfRank(fused, ret[j].file)


\* the last operation fused two lists with equal weights
FusedEqualWeights ==
  lastOp.op = "reciprocalRankFusion" /\ lastOp.args[3][1] = lastOp.args[3][2]

\* the fusion of the same two lists in the other order
FusedSwapped == reciprocalRankFusion(<<lastOp.args[2], lastOp.args[1]>>, lastOp.args[3])

\* C15 as stated: with equal weights the fusion of <<L1, L2>> and of <<L2, L1>>
\* are the same list: the same files in the same order with the same scores
C15_RrfCommutative == FusedEqualWeights => lastOp.ret = FusedSwapped

\* C15 amended: with equal weights the fusion of <<L1, L2>> and of <<L2, L1>>
\* hold the same files with the same scores, and the same score at every
\* position; only files of equal score can change places, each list keeping
\* them in its own insertion order
C15_RrfCommutativeUpToTies ==
  FusedEqualWeights =>
    /\ Range(lastOp.ret) = Range(FusedSwapped)
    /\ Len(lastOp.ret) = Len(FusedSwapped)
    /\ \A i \in 1..Len(lastOp.ret) : lastOp.ret[i].score = FusedSwapped[i].score

\* two lists without a common file each put their first file in the first
\* place: the two files tie and the order of the lists decides
C15_Witness ==
  /\ FusedEqualWeights
  /\ Len(lastOp.args[1]) >= 1 /\ Len(lastOp.args[2]) >= 1
  /\ lastOp.args[1][1] # lastOp.args[2][1]
  /\ lastOp.ret # FusedSwapped
  /\ lastOp.ret[1].score = lastOp.ret[2].score


\* ------------------------------------------------------------------------
\* Query expansion and its cache
\* ------------------------------------------------------------------------

ExpandQueries == {"notes", "how to index"}

DEFAULT_QUERY_MODEL == "qwen3:0.6b"

\* the count argument; 2 is the default
ExpandCounts == {1, 2}

NoResponse == "<no response>"

\* what the provider answers to the prompt: nothing (the request fails), an
\* empty text, a line that is too short, a tag and a usable line, three usable lines
Responses ==
  {NoResponse, "", "ab", "<b>\nnote taking", "note taking\n writing notes \nthird variation"}

RECURSIVE SplitLines(_, _)
\* text.split("\n"); cur is the line read so far
SplitLines(text, cur) ==
  IF text = "" THEN <<cur>>
  ELSE IF SubSeq(text, 1, 1) = "\n"
         THEN <<cur>> \o SplitLines(SubSeq(text, 2, Len(text)), "")
         ELSE SplitLines(SubSeq(text, 2, Len(text)), cur \o SubSeq(text, 1, 1))

RECURSIVE Trim(_)
\* String.prototype.trim for blanks
Trim(l) ==
  IF l = "" THEN l
  ELSE IF SubSeq(l, 1, 1) = " " THEN Trim(SubSeq(l, 2, Len(l)))
  ELSE IF SubSeq(l, Len(l), Len(l)) = " " THEN Trim(SubSeq(l, 1, Len(l) - 1))
  ELSE l

TrimAll(lines) == [i \in 1..Len(lines) |-> Trim(lines[i])]

RECURSIVE JoinLines(_)
\* lines.join("\n")
JoinLines(lines) ==
  IF lines = <<>> THEN ""
  ELSE IF Len(lines) = 1 THEN lines[1]
  ELSE lines[1] \o "\n" \o JoinLines(Tail(lines))

\* CacheRepository.get: the result of the row, null (here NoResponse) when
\* there is no row or the result is the empty string
cacheGet(cache, key) ==
  IF \E r \in cache : r.hash = key /\ r.result # ""
    THEN (CHOOSE r \in cache : r.hash = key).result
    ELSE NoResponse

\* CacheRepository.set: INSERT OR REPLACE
cacheSet(cache, key, result) ==
  {r \in cache : r.hash # key} \cup {[hash |-> key, result |-> result]}

\* generateKey(url, body), injective
generateKey(url, body) == <<url, body>>

\* JSON.stringify of the response data and the text read back from it
StringifyData(text) == "{" \o text \o "}"

ParseData(json) == SubSeq(json, 2, Len(json) - 1)

\* Ollama.generate with its cache: the text (NoResponse for null) and the cache after the call
generate(cache, model, query, numVariations, response) ==
  LET key == generateKey("/api/generate", <<model, query, numVariations>>)
      cached == cacheGet(cache, key)
  IN IF cached # NoResponse THEN [text |-> ParseData(cached), cache |-> cache]
     ELSE IF response = NoResponse THEN [text |-> NoResponse, cache |-> cache]
     ELSE [text |-> response, cache |-> cacheSet(cache, key, StringifyData(response))]

\* the filter of the lines of the response
UsableLine(l) == Len(l) > 2 /\ Len(l) < 100 /\ SubSeq(l, 1, 1) # "<"

\* Ollama.expandQuery: [query] when generate returns null, else the query and
\* the first numVariations usable lines
llmExpandQuery(cache, query, model, numVariations, response) ==
  LET g == generate(cache, model, query, numVariations, response)
      lines == SelectSeq(TrimAll(SplitLines(Trim(g.text), "")), UsableLine)
  IN [queries |-> IF g.text = NoResponse THEN <<query>>
                  ELSE <<query>> \o Take(lines, numVariations),
      cache |-> g.cache]

\* a cache hit that returns the cached lines without the query
FromCache_LinesOnly(query, cached, count) ==
  Take(SelectSeq(TrimAll(SplitLines(cached, "")), LAMBDA l : Len(l) > 0), count)

\* the cache hit of SearchService.expandQuery
FromCache(query, cached, count) ==
  <<query>> \o Take(SelectSeq(TrimAll(SplitLines(cached, "")), LAMBDA l : Len(l) > 0), count)

\* SearchService.expandQuery
ExpandQuery(query, model, count, response) ==
  /\ Idle
  /\ LET key == generateKey("expandQuery", <<query, model>>)
         cached == cacheGet(ollama_cache, key)
         r == llmExpandQuery(ollama_cache, query, model, count, response)
     IN IF cached # NoResponse
          THEN /\ lastOp' = Op("expandQuery", <<query, model, count>>, NoErr,
                               FromCache(query, cached, count))
               /\ UNCHANGED ollama_cache
          ELSE /\ lastOp' = Op("expandQuery", <<query, model, count>>, NoErr, r.queries)
               /\ ollama_cache' = IF Len(r.queries) > 1
                                    THEN cacheSet(r.cache, key, JoinLines(Tail(r.queries)))
                                    ELSE r.cache
  /\ snap' = NoSnap
  /\ UNCHANGED <<fs, legacy, proc, llm, storeVars, vecVars, nextId, clock, repoOps, pc, run, emb>>

NextExpand ==
  \/ \E q \in ExpandQueries, c \in ExpandCounts, r \in Responses :
       ExpandQuery(q, DEFAULT_QUERY_MODEL, c, r)
  \/ CleanupCommand

SpecExpand == Init /\ [][NextExpand]_vars

\* the key of the expansion cache of the last call
LastExpandKey == generateKey("expandQuery", <<lastOp.args[1], lastOp.args[2]>>)

\* C16: expandQuery returns a non-empty list whose first element is the query
\* it was given, on a cache hit, on a cache miss and when the provider fails
\* or returns no usable variation
C16_OriginalQueryFirst ==
  lastOp.op = "expandQuery" => (Len(lastOp.ret) >= 1 /\ lastOp.ret[1] = lastOp.args[1])

\* a call with count 1 answered from a cache entry of two lines: a cache hit
C16_Witness ==
  /\ lastOp.op = "expandQuery"
  /\ lastOp.args[3] = 1
  /\ Len(lastOp.ret) = 2
  /\ Len(SplitLines(cacheGet(ollama_cache, LastExpandKey), "")) = 2


\* ------------------------------------------------------------------------
\* chunkDocument on bodies of characters of one, two and three bytes
\* ------------------------------------------------------------------------

\* longest body and largest byte limit of the chunking model
MaxBodyLen == 5

MaxChunkBytes == 4

\* the characters of the bodies: a letter, the blank, the full stop, the line
\* feed, and "e" and "w", which stand for a two-byte character (like e acute)
\* and a three-byte character (like the euro sign)
Alphabet == {"a", " ", ".", "\n", "e", "w"}

\* encoder.encode(c).length of one character
CharBytes(c) == IF c = "e" THEN 2 ELSE IF c = "w" THEN 3 ELSE 1

RECURSIVE Utf8Length(_)
\* encoder.encode(text).length
Utf8Length(text) ==
  IF text = "" THEN 0 ELSE CharBytes(SubSeq(text, 1, 1)) + Utf8Length(SubSeq(text, 2, Len(text)))

RECURSIVE StringsUpTo(_)
\* the strings over the alphabet of at most n characters
StringsUpTo(n) ==
  IF n = 0 THEN {""}
  ELSE StringsUpTo(n - 1) \cup {s \o c : s \in StringsUpTo(n - 1), c \in Alphabet}

ChunkBodies == StringsUpTo(MaxBodyLen)

ChunkLimits == 1..MaxChunkBytes

\* content.slice(from, to), positions counted from 0; an end past the last
\* character is the end of the string
Slice(body, from, to) == SubSeq(body, from + 1, IF to > Len(body) THEN Len(body) ELSE to)

\* slice.lastIndexOf(pattern), -1 when the pattern does not occur
LastIndexOf(slice, pattern) ==
  LET hits == {i \in 0..(Len(slice) - Len(pattern)) : Slice(slice, i, i + Len(pattern)) = pattern}
  IN IF hits = {} THEN -1 ELSE CHOOSE i \in hits : \A j \in hits : j <= i

\* Math.max of a non-empty set
MaxOf(S) == CHOOSE x \in S : \A y \in S : y <= x

RECURSIVE FitEnd_CountChars(_, _, _, _)
\* a scan that counts every character as one byte
FitEnd_CountChars(body, maxBytes, endPos, byteCount) ==
  IF endPos < Len(body) /\ byteCount < maxBytes
    THEN FitEnd_CountChars(body, maxBytes, endPos + 1, byteCount + 1)
    ELSE endPos

RECURSIVE FitEnd(_, _, _, _)
\* the inner while loop: the end position that fits within maxBytes
FitEnd(body, maxBytes, endPos, byteCount) ==
  IF endPos < Len(body) /\ byteCount < maxBytes
    THEN LET charBytes == CharBytes(Slice(body, endPos, endPos + 1))
         IN IF byteCount + charBytes > maxBytes THEN endPos
            ELSE FitEnd(body, maxBytes, endPos + 1, byteCount + charBytes)
    ELSE endPos

\* the break at a natural boundary of the slice, -1 when there is none
BreakPoint(slice) ==
  LET paragraphBreak == LastIndexOf(slice, "\n\n")
      sentenceEnd == MaxOf({LastIndexOf(slice, ". "), LastIndexOf(slice, ".\n"),
                            LastIndexOf(slice, "? "), LastIndexOf(slice, "?\n"),
                            LastIndexOf(slice, "! "), LastIndexOf(slice, "!\n")})
      lineBreak == LastIndexOf(slice, "\n")
      spaceBreak == LastIndexOf(slice, " ")
  IN IF 2 * paragraphBreak > Len(slice) THEN paragraphBreak + 2
     ELSE IF 2 * sentenceEnd > Len(slice) THEN sentenceEnd + 2
     ELSE IF 10 * lineBreak > 3 * Len(slice) THEN lineBreak + 1
     ELSE IF 10 * spaceBreak > 3 * Len(slice) THEN spaceBreak + 1
     ELSE -1

\* a chunk whose text starts one character early
MakeChunk_Overlap(body, charPos, endPos) ==
  [text |-> Slice(body, IF charPos > 0 THEN charPos - 1 ELSE 0, endPos), pos |-> charPos]

\* chunks.push({ text: content.slice(charPos, endPos), pos: charPos })
MakeChunk(body, charPos, endPos) == [text |-> Slice(body, charPos, endPos), pos |-> charPos]

RECURSIVE ChunkFrom(_, _, _)
\* the outer while loop from charPos on
ChunkFrom(body, maxBytes, charPos) ==
  IF charPos >= Len(body) THEN <<>>
  ELSE LET fit == FitEnd(body, maxBytes, charPos, 0)
           bp == IF fit < Len(body) /\ fit > charPos
                   THEN BreakPoint(Slice(body, charPos, fit)) ELSE -1
           cut == IF bp > 0 THEN charPos + bp ELSE fit
           endPos == IF cut <= charPos THEN charPos + 1 ELSE cut
       IN <<MakeChunk(body, charPos, endPos)>> \o ChunkFrom(body, maxBytes, endPos)

\* chunkDocument(content, maxBytes) with the texts of the chunks
chunkDocumentText(body, maxBytes) ==
  IF Utf8Length(body) <= maxBytes THEN <<[text |-> body, pos |-> 0]>>
  ELSE ChunkFrom(body, maxBytes, 0)

\* the initial states of the chunking model: a body and a byte limit are given
InitChunk ==
  /\ fs = [p \in Paths |-> NoFile]
  /\ collections = {} /\ documents = {} /\ content = {}
  /\ documents_fts = {} /\ path_contexts = {}
  /\ content_vectors = {} /\ vectors_vec = {} /\ vecDim = 0
  /\ ollama_cache = {}
  /\ proc = NoProc /\ llm = NoLlm
  /\ legacy = NoLegacy
  /\ nextId = [collections |-> 1, documents |-> 1, path_contexts |-> 1]
  /\ clock = 0 /\ repoOps = 0
  /\ pc = "idle" /\ run = NoRun /\ emb = NoRun
  /\ \E body \in ChunkBodies, maxBytes \in ChunkLimits :
       lastOp = Op("body", <<body, maxBytes>>, NoErr, <<>>)
  /\ snap = NoSnap

\* chunkDocument applied to the body and the limit given
ChunkDocument ==
  /\ Idle
  /\ lastOp.op = "body"
  /\ lastOp' = Op("chunkDocument", lastOp.args, NoErr,
                  chunkDocumentText(lastOp.args[1], lastOp.args[2]))
  /\ snap' = NoSnap
  /\ UNCHANGED <<fs, ollama_cache, legacy, proc, llm, storeVars, vecVars, nextId, clock, repoOps, pc, run, emb>>

NextChunk == ChunkDocument

SpecChunk == InitChunk /\ [][NextChunk]_vars


\* the last operation chunked a body
Chunked == lastOp.op = "chunkDocument"

RECURSIVE ConcatTexts(_)
\* the texts of the chunks one after the other
ConcatTexts(chunks) ==
  IF chunks = <<>> THEN "" ELSE Head(chunks).text \o ConcatTexts(Tail(chunks))

\* the chunks start at 0 in strictly increasing positions, each text is the
\* body at its position, and the texts one after the other are the body
ChunksPartition(body, chunks) ==
  /\ Len(chunks) >= 1
  /\ chunks[1].pos = 0
  /\ \A i \in 1..(Len(chunks) - 1) : chunks[i].pos < chunks[i + 1].pos
  /\ \A i \in 1..Len(chunks) :
       chunks[i].text = Slice(body, chunks[i].pos, chunks[i].pos + Len(chunks[i].text))
  /\ \A i \in 1..(Len(chunks) - 1) : chunks[i].pos + Len(chunks[i].text) = chunks[i + 1].pos
  /\ ConcatTexts(chunks) = body

\* C17 as stated: for every body and byte limit the chunks partition the body
\* in increasing positions from 0, and no chunk is empty
C17_ChunksPartitionNoEmpty ==
  Chunked =>
    /\ ChunksPartition(lastOp.args[1], lastOp.ret)
    /\ \A i \in 1..Len(lastOp.ret) : lastOp.ret[i].text # ""

\* C17 amended: for every body and byte limit the chunks partition the body
\* in increasing positions from 0; no chunk is empty, except that the empty
\* body yields the one chunk (0, "")
C17_ChunksPartition ==
  Chunked =>
    /\ ChunksPartition(lastOp.args[1], lastOp.ret)
    /\ IF lastOp.args[1] = ""
         THEN lastOp.ret = <<[text |-> "", pos |-> 0]>>
         ELSE \A i \in 1..Len(lastOp.ret) : lastOp.ret[i].text # ""

\* a body cut into two chunks, the first one ended at a blank before the limit
C17_Witness ==
  /\ Chunked
  /\ lastOp.args = <<"aa aa", 4>>
  /\ lastOp.ret = <<[text |-> "aa ", pos |-> 0], [text |-> "aa", pos |-> 3]>>

\* C18 as stated: every chunk has an encoded length of at most the limit, and
\* a body whose encoded length is at most the limit is the single chunk (0, body)
C18_ChunkWithinLimit ==
  Chunked =>
    /\ \A i \in 1..Len(lastOp.ret) : Utf8Length(lastOp.ret[i].text) <= lastOp.args[2]
    /\ Utf8Length(lastOp.args[1]) <= lastOp.args[2]
         => lastOp.ret = <<[text |-> lastOp.args[1], pos |-> 0]>>

\* C18 amended: every chunk has an encoded length of at most the limit or is
\* one character whose own encoding is longer than the limit, and a body whose
\* encoded length is at most the limit is the single chunk (0, body)
C18_ChunkWithinLimitOrOneChar ==
  Chunked =>
    /\ \A i \in 1..Len(lastOp.ret) :
         \/ Utf8Length(lastOp.ret[i].text) <= lastOp.args[2]
         \/ Len(lastOp.ret[i].text) = 1
    /\ Utf8Length(lastOp.args[1]) <= lastOp.args[2]
         => lastOp.ret = <<[text |-> lastOp.args[1], pos |-> 0]>>

\* a body cut into several chunks, one of them a single character of more
\* bytes than the limit
C18_Witness ==
  /\ Chunked
  /\ Len(lastOp.ret) >= 2
  /\ \E i \in 1..Len(lastOp.ret) : Utf8Length(lastOp.ret[i].text) > lastOp.args[2]
  /\ \E i \in 1..Len(lastOp.ret) : Len(lastOp.ret[i].text) >= 2


\* ------------------------------------------------------------------------
\* ContextRepository.getContextForPath
\* ------------------------------------------------------------------------

\* number of path context rows inserted in one behaviour of the context model
MaxContextRows == 2

\* the prefixes the contexts are stored for: the root, a directory, a
\* directory below it, the directory in another case, one with an underscore
CtxPrefixes == {"", "docs", "docs/api", "Docs", "d_cs"}

\* the contexts stored; setContext accepts the empty text
CtxContexts == {"root", "sub", ""}

\* the paths looked up
CtxPaths == {"docs/api/x.md", "docs/intro.md", "Docs/intro.md", "README.md", "docs", "docsx/a.md"}

\* the null of getContextForPath
NoContext == "<null>"

UpperCase == "ABCDEFGHIJKLMNOPQRSTUVWXYZ"

LowerCase == "abcdefghijklmnopqrstuvwxyz"

\* the lower-case letter of every upper-case ASCII letter
FoldMap ==
  [c \in {SubSeq(UpperCase, i, i) : i \in 1..Len(UpperCase)} |->
     LET i == CHOOSE i \in 1..Len(UpperCase) : SubSeq(UpperCase, i, i) = c
     IN SubSeq(LowerCase, i, i)]

\* LIKE compares the ASCII letters without regard to case
Fold(c) == IF c \in DOMAIN FoldMap THEN FoldMap[c] ELSE c

RECURSIVE LikeMatch(_, _)
\* text LIKE pattern: % is any run of characters, _ is any one character
LikeMatch(text, pattern) ==
  IF pattern = "" THEN text = ""
  ELSE LET p == SubSeq(pattern, 1, 1)
           rest == SubSeq(pattern, 2, Len(pattern))
       IN IF p = "%"
            THEN \E k \in 0..Len(text) : LikeMatch(SubSeq(text, k + 1, Len(text)), rest)
          ELSE IF text = "" THEN FALSE
          ELSE IF p = "_" THEN LikeMatch(SubSeq(text, 2, Len(text)), rest)
          ELSE /\ Fold(p) = Fold(SubSeq(text, 1, 1))
               /\ LikeMatch(SubSeq(text, 2, Len(text)), rest)

\* WHERE collection_id = ? AND (? LIKE path_prefix || '/%' OR ? = path_prefix
\*   OR path_prefix = '')
ContextMatches(pcs, collection_id, path) ==
  {x \in pcs : /\ x.collection_id = collection_id
               /\ \/ LikeMatch(path, x.path_prefix \o "/%")
                  \/ path = x.path_prefix
                  \/ x.path_prefix = ""}

\* ORDER BY LENGTH(path_prefix) DESC LIMIT 1, then result?.context || null:
\* the values the call can return (rows of equal length come in no fixed order)
getContextForPath(pcs, collection_id, path) ==
  LET matching == ContextMatches(pcs, collection_id, path)
      first == {x \in matching : \A y \in matching : Len(y.path_prefix) <= Len(x.path_prefix)}
  IN IF matching = {} THEN {NoContext}
     ELSE {IF x.context = "" THEN NoContext ELSE x.context : x \in first}

\* ContextService.getContextForPath(collectionName, path)
GetContextForPath(collectionName, path) ==
  /\ Idle
  /\ IF getByName(collections, collectionName) = {}
       THEN lastOp' = Op("getContextForPath", <<collectionName, path>>, NoErr, <<NoContext>>)
       ELSE LET coll == CHOOSE c \in getByName(collections, collectionName) : TRUE
            IN \E r \in getContextForPath(path_contexts, coll.id, path) :
                 lastOp' = Op("getContextForPath", <<collectionName, path>>, NoErr, <<r>>)
  /\ snap' = NoSnap
  /\ UNCHANGED <<fs, ollama_cache, legacy, proc, llm, storeVars, vecVars, nextId, clock, repoOps, pc, run, emb>>

NextContext ==
  \/ Create("/w/notes", "**/*.md", NoName)
  \/ Create("/w/notes", "*.md", "docs")
  \/ \E p \in CtxPrefixes, c \in CtxContexts : SetContextUpTo(MaxContextRows, "notes", p, c)
  \/ SetContextUpTo(MaxContextRows, "docs", "docs", "other")
  \/ \E n \in Names, p \in CtxPaths : GetContextForPath(n, p)

SpecContext == Init /\ [][NextContext]_vars

\* path starts with prefix, character for character
StartsWith(path, prefix) == Len(path) >= Len(prefix) /\ SubSeq(path, 1, Len(prefix)) = prefix

\* the rows of the collection whose prefix is the path or a directory above it
PrefixRows(pcs, collection_id, path) ==
  {x \in pcs : /\ x.collection_id = collection_id
               /\ (path = x.path_prefix \/ StartsWith(path, x.path_prefix \o "/"))}

\* the context the lookup is to return: that of the longest such prefix, else
\* that of the root, else nothing
LongestPrefixContext(pcs, collection_id, path) ==
  LET rows == PrefixRows(pcs, collection_id, path)
      root == {x \in pcs : x.collection_id = collection_id /\ x.path_prefix = ""}
  IN IF rows # {}
       THEN (CHOOSE x \in rows : \A y \in rows : Len(y.path_prefix) <= Len(x.path_prefix)).context
     ELSE IF root # {} THEN (CHOOSE x \in root : TRUE).context
     ELSE NoContext

\* C19: getContextForPath returns the context of the longest prefix p of the
\* collection with path = p or path starting with p + "/" (compared exactly),
\* the root context when there is no such p, and nothing only when neither
\* exists
C19_LongestPrefixContext ==
  (lastOp.op = "getContextForPath" /\ getByName(collections, lastOp.args[1]) # {}) =>
    LET coll == CHOOSE c \in getByName(collections, lastOp.args[1]) : TRUE
    IN lastOp.ret = <<LongestPrefixContext(path_contexts, coll.id, lastOp.args[2])>>


\* ------------------------------------------------------------------------
\* migrateToContentAddressable
\* ------------------------------------------------------------------------

\* the rows a database of the flat schema can hold: collections
\* [id, pwd, glob_pattern, created_at], documents with the body in the row,
\* path contexts keyed by an absolute prefix
LegacyCollections ==
  {[id |-> 1, pwd |-> "/w/notes", glob_pattern |-> "**/*.md", created_at |-> 1],
   [id |-> 2, pwd |-> "/v/notes", glob_pattern |-> "**/*.md", created_at |-> 1],
   [id |-> 3, pwd |-> "/w/notes", glob_pattern |-> "*.md", created_at |-> 2]}

LegacyDocuments ==
  {[id |-> 1, collection_id |-> 1, filepath |-> "/w/notes/x.md", title |-> "T",
    hash |-> hashContent("# T"), body |-> "# T", created_at |-> 2, modified_at |-> 2,
    active |-> 1],
   [id |-> 2, collection_id |-> 2, filepath |-> "/v/notes/x.md", title |-> "T",
    hash |-> hashContent("# T"), body |-> "# T", created_at |-> 1, modified_at |-> 1,
    active |-> 1],
   [id |-> 3, collection_id |-> 1, filepath |-> "/w/notes/sub/y.md", title |-> "y",
    hash |-> hashContent(BigBody), body |-> BigBody, created_at |-> 2, modified_at |-> 2,
    active |-> 1],
   [id |-> 4, collection_id |-> 1, filepath |-> "/w/notes/old.md", title |-> "old",
    hash |-> hashContent(""), body |-> "", created_at |-> 1, modified_at |-> 1,
    active |-> 0]}

LegacyContexts ==
  {[id |-> 1, path_prefix |-> "/w/notes", context |-> "root"],
   [id |-> 2, path_prefix |-> "/w/notes/", context |-> "dup"],
   [id |-> 3, path_prefix |-> "/w/notes/sub", context |-> "sub"]}

\* largest id of a legacy row
MaxLegacyId == 4

\* the ids of a set of rows in rowid order
RowOrder(rows) == SeqOfSet([i \in 1..MaxLegacyId |-> i], {r.id : r \in rows})

RowOf(rows, id) == CHOOSE r \in rows : r.id = id

RECURSIVE StripSlashes(_)
\* path.replace(/^\/+/, "")
StripSlashes(path) ==
  IF path # "" /\ SubSeq(path, 1, 1) = "/" THEN StripSlashes(SubSeq(path, 2, Len(path)))
  ELSE path

\* the path relative to pwd, as the migration derives it
RelativeTo(path, pwd) ==
  StripSlashes(IF StartsWith(path, pwd \o "/") THEN SubSeq(path, Len(pwd) + 2, Len(path))
               ELSE IF StartsWith(path, pwd) THEN SubSeq(path, Len(pwd) + 1, Len(path))
               ELSE path)

\* INSERT INTO content ... FROM documents_old WHERE active = 1 GROUP BY hash
MigrateContentRows(oldDocs) ==
  {[hash |-> h, doc |-> (CHOOSE d \in oldDocs : d.active = 1 /\ d.hash = h).body] :
     h \in {d.hash : d \in {x \in oldDocs : x.active = 1}}}

RECURSIVE InsertCollections(_, _, _)
\* INSERT INTO collections ... SELECT id, pwd as name, ... FROM collections_old:
\* the statement fails on UNIQUE name or UNIQUE(pwd, glob_pattern)
InsertCollections(order, olds, acc) ==
  IF order = <<>> THEN [ok |-> TRUE, rows |-> acc]
  ELSE LET o == RowOf(olds, Head(order))
       IN IF CollectionInsertFails(acc, o.pwd, o.pwd, o.glob_pattern)
            THEN [ok |-> FALSE, rows |-> acc]
            ELSE InsertCollections(Tail(order), olds,
                   acc \cup {[id |-> o.id, name |-> o.pwd, pwd |-> o.pwd,
                              glob_pattern |-> o.glob_pattern, updated_at |-> o.created_at]})

RECURSIVE RenameToBasenames(_, _)
\* UPDATE collections SET name = basename WHERE id = ?, row after row; the
\* update throws on UNIQUE name
RenameToBasenames(order, acc) ==
  IF order = <<>> THEN [ok |-> TRUE, rows |-> acc]
  ELSE LET c == RowOf(acc, Head(order))
           name == Basename(c.pwd)
       IN IF \E x \in acc : x.id # c.id /\ x.name = name
            THEN [ok |-> FALSE, rows |-> acc]
            ELSE RenameToBasenames(Tail(order),
                   {IF x.id = c.id THEN [x EXCEPT !.name = name] ELSE x : x \in acc})

\* the rows of a name held more than once, but the first, are renamed name-id
HandleDuplicateNames(rows) ==
  {IF \E x \in rows : x.name = c.name /\ x.id < c.id
     THEN [c EXCEPT !.name = SuffixName(c.name, c.id)] ELSE c : c \in rows}

\* the collections step: insert, rename, handle duplicates
MigrateCollectionRows(olds) ==
  LET inserted == InsertCollections(RowOrder(olds), olds, {})
      renamed == IF inserted.ok THEN RenameToBasenames(RowOrder(olds), inserted.rows)
                 ELSE inserted
  IN IF renamed.ok THEN [ok |-> TRUE, rows |-> HandleDuplicateNames(renamed.rows)] ELSE renamed

RECURSIVE InsertDocuments(_, _, _, _, _)
\* the loop over the old active documents: an insert that throws is skipped
InsertDocuments(order, olds, db, failing, st) ==
  IF order = <<>> THEN st
  ELSE LET o == RowOf(olds, Head(order))
           coll == RowOf(db.collections, o.collection_id)
           path == RelativeTo(o.filepath, coll.pwd)
           cur == [db EXCEPT !.documents = st.rows]
       IN IF o.id = failing \/ DocumentInsertFails(cur, o.collection_id, path, o.hash)
            THEN InsertDocuments(Tail(order), olds, db, failing,
                                 [st EXCEPT !.failed = @ + 1])
            ELSE InsertDocuments(Tail(order), olds, db, failing,
                   [st EXCEPT !.rows = @ \cup
                      {[id |-> st.next, collection_id |-> o.collection_id, path |-> path,
                        title |-> o.title, hash |-> o.hash, modified_at |-> o.modified_at,
                        active |-> 1]},
                    !.next = @ + 1])

\* the pairs (old context, collection) in the order of the two loops
ContextPairs(olds, colls) ==
  Flatten([i \in 1..Len(RowOrder(olds)) |->
             [j \in 1..Len(RowOrder(colls)) |-> <<RowOrder(olds)[i], RowOrder(colls)[j]>>]])

RECURSIVE InsertContexts(_, _, _, _)
\* the loops over the old contexts and the collections: an insert that throws
\* is ignored
InsertContexts(pairs, olds, colls, st) ==
  IF pairs = <<>> THEN st
  ELSE LET ctx == RowOf(olds, Head(pairs)[1])
           coll == RowOf(colls, Head(pairs)[2])
           relPath == RelativeTo(ctx.path_prefix, coll.pwd)
       IN IF ~StartsWith(ctx.path_prefix, coll.pwd)
            THEN InsertContexts(Tail(pairs), olds, colls, st)
          ELSE IF \E x \in st.rows : x.collection_id = coll.id /\ x.path_prefix = relPath
            THEN InsertContexts(Tail(pairs), olds, colls, [st EXCEPT !.failed = @ + 1])
          ELSE InsertContexts(Tail(pairs), olds, colls,
                 [st EXCEPT !.rows = @ \cup
                    {[id |-> st.next, collection_id |-> coll.id, path_prefix |-> relPath,
                      context |-> ctx.context]},
                  !.next = @ + 1])

\* a legacy database is opened: documents exists and content does not
InitMigrate ==
  /\ fs = [p \in Paths |-> NoFile]
  /\ collections = {} /\ documents = {} /\ content = {}
  /\ documents_fts = {} /\ path_contexts = {}
  /\ content_vectors = {} /\ vectors_vec = {} /\ vecDim = 0
  /\ ollama_cache = {}
  /\ proc = NoProc /\ llm = NoLlm
  /\ \E colls \in SUBSET LegacyCollections, docs \in SUBSET LegacyDocuments,
        ctxs \in SUBSET LegacyContexts :
       /\ \A d \in docs : d.collection_id \in {c.id : c \in colls}
       /\ legacy = [schema |-> "legacy", collections |-> colls, documents |-> docs,
                    path_contexts |-> ctxs]
  /\ nextId = [collections |-> 1, documents |-> 1, path_contexts |-> 1]
  /\ clock = 0 /\ repoOps = 0
  /\ pc = "idle" /\ run = NoRun /\ emb = NoRun
  /\ lastOp = Op("open", <<>>, NoErr, <<>>)
  /\ snap = NoSnap

\* the state a ROLLBACK returns to
Journal == [taken |-> FALSE, legacy |-> legacy, db |-> DB, nextId |-> nextId]

\* initializeSchema finds needsMigration; BEGIN TRANSACTION
MigrateBegin ==
  /\ Idle
  /\ legacy.schema = "legacy"
  /\ pc' = "mig_schema"
  /\ snap' = Journal
  /\ run' = [active |-> TRUE, before |-> Journal, failed |-> 0]
  /\ lastOp' = Op("migrateBegin", <<>>, NoErr, <<>>)
  /\ UNCHANGED <<fs, ollama_cache, legacy, proc, llm, storeVars, vecVars, nextId, clock, repoOps, emb>>

\* catch (e) { ROLLBACK; throw e }
MigrateRollback ==
  /\ SetDB(snap.db)
  /\ legacy' = snap.legacy
  /\ nextId' = snap.nextId
  /\ lastOp' = Op("migrate", <<run.before>>, "migration failed", <<run.failed>>)
  /\ pc' = "idle"
  /\ run' = NoRun
  /\ snap' = NoSnap

\* the old tables are renamed, the FTS table and triggers dropped, the new
\* tables created
MigrateSchema(ok) ==
  /\ pc = "mig_schema"
  /\ IF ok
       THEN /\ legacy' = [legacy EXCEPT !.schema = "renamed"]
            /\ SetDB([collections |-> {}, documents |-> {}, content |-> {}, fts |-> {},
                      path_contexts |-> {}])
            /\ pc' = "mig_content"
            /\ UNCHANGED <<nextId, lastOp, run, snap>>
       ELSE MigrateRollback
  /\ UNCHANGED <<fs, ollama_cache, proc, llm, vecVars, clock, repoOps, emb>>

MigrateContent(ok) ==
  /\ pc = "mig_content"
  /\ IF ok
       THEN /\ content' = MigrateContentRows(legacy.documents)
            /\ pc' = "mig_collections"
            /\ UNCHANGED <<collections, documents, documents_fts, path_contexts, legacy,
                           nextId, lastOp, run, snap>>
       ELSE MigrateRollback
  /\ UNCHANGED <<fs, ollama_cache, proc, llm, vecVars, clock, repoOps, emb>>

MigrateCollections ==
  /\ pc = "mig_collections"
  /\ LET res == MigrateCollectionRows(legacy.collections)
     IN IF res.ok
          THEN /\ collections' = res.rows
               /\ nextId' = [nextId EXCEPT !.collections =
                               IF res.rows = {} THEN 1
                               ELSE MaxOf({c.id : c \in res.rows}) + 1]
               /\ pc' = "mig_documents"
               /\ UNCHANGED <<documents, content, documents_fts, path_contexts, legacy,
                              lastOp, run, snap>>
          ELSE MigrateRollback
  /\ UNCHANGED <<fs, ollama_cache, proc, llm, vecVars, clock, repoOps, emb>>

\* failing: the id of the old document whose insert the database refuses for a
\* reason of its own (0: none)
MigrateDocuments(failing) ==
  /\ pc = "mig_documents"
  /\ LET olds == {d \in legacy.documents :
                    d.active = 1 /\ d.collection_id \in {c.id : c \in collections}}
         st == InsertDocuments(RowOrder(olds), olds, DB, failing,
                               [rows |-> {}, next |-> 1, failed |-> 0])
     IN /\ failing \in {0} \cup {d.id : d \in olds}
        /\ documents' = st.rows
        /\ nextId' = [nextId EXCEPT !.documents = st.next]
        /\ run' = [run EXCEPT !.failed = @ + st.failed]
  /\ pc' = "mig_contexts"
  /\ UNCHANGED <<collections, content, documents_fts, path_contexts, legacy, lastOp, snap>>
  /\ UNCHANGED <<fs, ollama_cache, proc, llm, vecVars, clock, repoOps, emb>>

MigrateContexts ==
  /\ pc = "mig_contexts"
  /\ LET st == InsertContexts(ContextPairs(legacy.path_contexts, collections),
                              legacy.path_contexts, collections,
                              [rows |-> {}, next |-> 1, failed |-> 0])
     IN /\ path_contexts' = st.rows
        /\ nextId' = [nextId EXCEPT !.path_contexts = st.next]
        /\ run' = [run EXCEPT !.failed = @ + st.failed]
  /\ pc' = "mig_finish"
  /\ UNCHANGED <<collections, documents, content, documents_fts, legacy, lastOp, snap>>
  /\ UNCHANGED <<fs, ollama_cache, proc, llm, vecVars, clock, repoOps, emb>>

\* the old tables are dropped, the FTS table and triggers recreated and
\* populated, the indexes created; COMMIT
MigrateFinish(ok) ==
  /\ pc = "mig_finish"
  /\ IF ok
       THEN /\ legacy' = NoLegacy
            /\ documents_fts' = rebuildIndex(DB).fts
            /\ lastOp' = Op("migrate", <<run.before>>, NoErr, <<run.failed>>)
            /\ pc' = "idle"
            /\ run' = NoRun
            /\ snap' = NoSnap
            /\ UNCHANGED <<collections, documents, content, path_contexts, nextId>>
       ELSE MigrateRollback
  /\ UNCHANGED <<fs, ollama_cache, proc, llm, vecVars, clock, repoOps, emb>>

NextMigrate ==
  \/ MigrateBegin
  \/ \E ok \in BOOLEAN : MigrateSchema(ok)
  \/ \E ok \in BOOLEAN : MigrateContent(ok)
  \/ MigrateCollections
  \/ \E failing \in 0..MaxLegacyId : MigrateDocuments(failing)
  \/ MigrateContexts
  \/ \E ok \in BOOLEAN : MigrateFinish(ok)

SpecMigrate == InitMigrate /\ [][NextMigrate]_vars

\* C20: the migration is all-or-nothing: when a step has failed the database
\* is as it was before the migration and the error is propagated; otherwise
\* the steps are committed together
C20_MigrationAtomic ==
  lastOp.op = "migrate" =>
    LET before == lastOp.args[1]
    IN /\ lastOp.ret[1] > 0 => lastOp.err # NoErr
       /\ lastOp.err # NoErr => (legacy = before.legacy /\ DB = before.db)
       /\ lastOp.err = NoErr =>
            /\ legacy = NoLegacy
            /\ {c.id : c \in collections} = {c.id : c \in before.legacy.collections}
            /\ ContentHashes(content) =
                 {d.hash : d \in {x \in before.legacy.documents : x.active = 1}}
            /\ documents_fts = rebuildIndex(DB).fts


\* ------------------------------------------------------------------------
\* SIGINT and SIGTERM
\* ------------------------------------------------------------------------

\* the exit codes of the two handlers: SIGINT and SIGTERM
ExitCodes == {130, 143}

\* process.on("SIGINT" | "SIGTERM"): cursor.show(); process.exit(code). The
\* exit runs no finally block of the command in progress
Signal(code) ==
  /\ pc # "exited"
  /\ proc' = [proc EXCEPT !.cursor = "shown", !.exit = code]
  /\ pc' = "exited"
  /\ lastOp' = Op("signal", <<code>>, NoErr, <<>>)
  /\ UNCHANGED <<fs, ollama_cache, legacy, llm, storeVars, vecVars, nextId, clock, repoOps,
                 run, emb, snap>>

NextSignal ==
  \/ FsWrite("x.md", "# T")
  \/ FsWrite("sub/y.md", BigBody)
  \/ IndexStart("/w/notes", "**/*.md", NoName)
  \/ IndexFile
  \/ IndexDeactivate
  \/ IndexCleanup
  \/ IndexFinish
  \/ \E force \in BOOLEAN : VectorIndexStart("embeddinggemma", force)
  \/ \E ok \in BOOLEAN : VectorIndexFirst(ok)
  \/ \E ok \in BOOLEAN : VectorIndexNext(ok)
  \/ \E code \in ExitCodes : Signal(code)

SpecSignal == Init /\ [][NextSignal]_vars

\* C21: when SIGINT or SIGTERM has ended the process, at whatever point of a
\* command it arrived, the terminal cursor is visible and the Store handle
\* has been closed
C21_SignalRestoresCursorAndClosesStore ==
  pc = "exited" => (proc.cursor = "shown" /\ proc.cliDb = "null")


\* ------------------------------------------------------------------------
\* indexFiles over a directory whose files come and go
\* ------------------------------------------------------------------------

NextReindex ==
  \/ \E p \in Paths, b \in {"# T", NoFile} : FsWrite(p, b)
  \/ IndexStart("/w/notes", "**/*.md", NoName)
  \/ IndexFile
  \/ IndexDeactivate
  \/ IndexCleanup
  \/ IndexFinish

SpecReindex == Init /\ [][NextReindex]_vars

\* C22: indexFiles never fails on a database constraint, and after a run that
\* walked a path exactly one document row, with active = 1, exists for that
\* (collection, path), also when the path had been deactivated by an earlier
\* run
C22_ReindexNeverViolatesConstraint ==
  lastOp.op = "indexFiles" =>
    /\ lastOp.err # "SQLITE_CONSTRAINT"
    /\ (lastOp.err = NoErr /\ Walked(lastOp.args) # {}) =>
         \A c \in getByPwdAndGlob(collections, lastOp.args[1], lastOp.args[2]) :
           \A f \in Walked(lastOp.args) :
             /\ Cardinality({d \in documents : d.collection_id = c.id /\ d.path = f}) = 1
             /\ \A d \in documents : (d.collection_id = c.id /\ d.path = f) => d.active = 1



\* ------------------------------------------------------------------------
\* Ollama.rerank: batches of concurrent rerankSingle calls
\* ------------------------------------------------------------------------

MaxRerankDocs == 3

\* the documents handed to rerank: non-empty lists of distinct files
RerankDocLists ==
  UNION {{l \in [1..n -> Files] : \A i, j \in 1..n : l[i] = l[j] => i = j} : n \in 1..MaxRerankDocs}

\* options.batchSize; 0 stands for an option that is not given
BatchSizes == {0, 1, 2}

DefaultBatchSize == 5

\* options.batchSize || 5
EffectiveBatchSize(batchSize) == IF batchSize = 0 THEN DefaultBatchSize ELSE batchSize

RerankModel == "qwen3-reranker"

RerankQuery == "q"

\* generate returned null: the request failed or was answered with an error status
NoAnswer == [response |-> NoResponse, confidence |-> 0]

\* what the provider answers: the text and exp(logprob) of the first token in hundredths
RerankAnswers ==
  {[response |-> "Yes", confidence |-> 100],
   [response |-> "no", confidence |-> 50],
   [response |-> "maybe", confidence |-> 100]}

\* JSON.stringify(data) and JSON.parse(cached) of a rerank answer
StringifyAnswer(a) ==
  "{" \o a.response \o ":" \o (IF a.confidence = 100 THEN "100" ELSE IF a.confidence = 50 THEN "050" ELSE "000") \o "}"

ParseAnswer(json) ==
  LET c == SubSeq(json, Len(json) - 3, Len(json) - 1)
  IN [response |-> SubSeq(json, 2, Len(json) - 5),
      confidence |-> IF c = "100" THEN 100 ELSE IF c = "050" THEN 50 ELSE 0]

RECURSIVE ToLowerCase(_)
\* String.prototype.toLowerCase
ToLowerCase(s) == IF s = "" THEN "" ELSE Fold(SubSeq(s, 1, 1)) \o ToLowerCase(SubSeq(s, 2, Len(s)))

\* parseRerankResponse; score and confidence in hundredths
parseRerankResponse(file, result) ==
  LET token == Trim(ToLowerCase(result.response))
  IN IF StartsWith(token, "yes")
       THEN [file |-> file, relevant |-> TRUE, confidence |-> result.confidence,
             score |-> 50 + result.confidence \div 2, rawToken |-> result.response]
     ELSE IF StartsWith(token, "no")
       THEN [file |-> file, relevant |-> FALSE, confidence |-> result.confidence,
             score |-> (100 - result.confidence) \div 2, rawToken |-> result.response]
     ELSE [file |-> file, relevant |-> FALSE, confidence |-> result.confidence,
           score |-> 30, rawToken |-> result.response]

\* what rerankSingle makes of the result of generate
RerankSingleResult(file, result) ==
  IF result = NoAnswer
    THEN [file |-> file, relevant |-> FALSE, confidence |-> 0, score |-> 0, rawToken |-> ""]
    ELSE parseRerankResponse(file, result)

\* the cache key of the request of rerankSingle for a document
RerankKey(file) == generateKey("/api/generate", <<RerankModel, RerankQuery, file>>)

\* documents.slice(i, i + batchSize), as the indices counted from 1
BatchOf_Unbounded(docs, i, batchSize) == (i + 1)..Len(docs)

BatchOf(docs, i, batchSize) ==
  (i + 1)..(IF i + batchSize < Len(docs) THEN i + batchSize ELSE Len(docs))

\* SearchService.rerank calls Ollama.rerank, which enters rerankerLogprobsCheck
RerankStart(docs, batchSize) ==
  /\ Idle
  /\ llm' = [active |-> TRUE, documents |-> docs, batchSize |-> EffectiveBatchSize(batchSize),
             option |-> batchSize, i |-> 0, called |-> 0, inflight |-> {},
             batchResults |-> <<>>, results |-> <<>>, answers |-> <<>>]
  /\ pc' = "rerank_call"
  /\ snap' = NoSnap
  /\ UNCHANGED <<fs, ollama_cache, legacy, proc, storeVars, vecVars, nextId, clock, repoOps,
                 run, emb, lastOp>>

\* batch.map: rerankSingle of the next document of the batch runs up to the
\* first await of generate: the cache is read, and on a miss the request is sent
RerankCall ==
  /\ pc = "rerank_call"
  /\ LET j == llm.i + llm.called + 1
         batch == BatchOf(llm.documents, llm.i, llm.batchSize)
         cached == cacheGet(ollama_cache, RerankKey(llm.documents[j]))
         last == j = MaxOf(batch)
     IN /\ j \in batch
        /\ IF cached # NoResponse
             THEN llm' = [llm EXCEPT !.called = @ + 1,
                            !.batchResults = (j :> RerankSingleResult(llm.documents[j], ParseAnswer(cached))) @@ @,
                            !.answers = (j :> ParseAnswer(cached)) @@ @]
             ELSE llm' = [llm EXCEPT !.called = @ + 1, !.inflight = @ \cup {j}]
        /\ pc' = IF last THEN "rerank_wait" ELSE "rerank_call"
        /\ lastOp' = Op("cacheGet", <<llm.documents[j]>>, NoErr, [outstanding |-> llm.inflight])
  /\ UNCHANGED <<fs, ollama_cache, legacy, proc, storeVars, vecVars, nextId, clock, repoOps,
                 run, emb, snap>>

\* the request of document j completes: generate stores the data of an answer
\* in the cache and rerankSingle returns its result
RerankRespond(j, answer) ==
  /\ pc = "rerank_wait"
  /\ j \in llm.inflight
  /\ llm' = [llm EXCEPT !.inflight = @ \ {j},
               !.batchResults = (j :> RerankSingleResult(llm.documents[j], answer)) @@ @,
               !.answers = (j :> answer) @@ @]
  /\ IF answer = NoAnswer
       THEN /\ ollama_cache' = ollama_cache
            /\ lastOp' = Op("fetch", <<llm.documents[j]>>, "failed", [outstanding |-> llm.inflight \ {j}])
       ELSE /\ ollama_cache' = cacheSet(ollama_cache, RerankKey(llm.documents[j]), StringifyAnswer(answer))
            /\ lastOp' = Op("cacheSet", <<llm.documents[j]>>, NoErr, [outstanding |-> llm.inflight \ {j}])
  /\ UNCHANGED <<fs, legacy, proc, storeVars, vecVars, nextId, clock, repoOps, pc, run, emb, snap>>

\* Promise.all of the batch resolves: results.push(...batchResults); then the
\* next batch, or after the last one the sort of Ollama.rerank and the score
\* map and sort of SearchService.rerank
RerankBatchDone ==
  /\ pc = "rerank_wait"
  /\ llm.inflight = {}
  /\ LET batch == BatchOf(llm.documents, llm.i, llm.batchSize)
         lo == llm.i + 1
         collected == llm.results \o [k \in 1..Cardinality(batch) |-> llm.batchResults[lo + k - 1]]
         sorted == SortDesc(collected)
         scoreOf == [f \in {sorted[k].file : k \in 1..Len(sorted)} |->
                       (CHOOSE r \in Range(sorted) : r.file = f).score]
         inputs == [k \in 1..Len(llm.documents) |-> [file |-> llm.documents[k]]]
     IN IF llm.i + llm.batchSize < Len(llm.documents)
          THEN /\ llm' = [llm EXCEPT !.i = @ + llm.batchSize, !.called = 0,
                            !.batchResults = <<>>, !.results = collected]
               /\ pc' = "rerank_call"
               /\ lastOp' = Op("batch", <<llm.i>>, NoErr, collected)
          ELSE /\ llm' = NoLlm
               /\ pc' = "idle"
               /\ lastOp' = Op("rerank", <<llm.documents, llm.option, llm.answers>>, NoErr,
                               [collected |-> collected, results |-> rerank(inputs, scoreOf)])
  /\ UNCHANGED <<fs, ollama_cache, legacy, proc, storeVars, vecVars, nextId, clock, repoOps,
                 run, emb, snap>>

NextRerank ==
  \/ \E docs \in RerankDocLists, b \in BatchSizes : RerankStart(docs, b)
  \/ RerankCall
  \/ \E j \in 1..MaxRerankDocs, a \in RerankAnswers \cup {NoAnswer} : RerankRespond(j, a)
  \/ RerankBatchDone

SpecRerank == Init /\ [][NextRerank]_vars

\* the token rerank judges an answer by
AnswerToken(a) == Trim(ToLowerCase(a.response))

\* C23: rerank does not raise when the provider fails: it returns one result
\* per input document, and a document whose provider call failed, or whose
\* answer token is neither yes nor no, has the neutral score 0.3
C23_RerankNeutralOnFailure ==
  lastOp.op = "rerank" =>
    /\ lastOp.err = NoErr
    /\ Len(lastOp.ret.results) = Len(lastOp.args[1])
    /\ \A k \in 1..Len(lastOp.args[1]) :
         /\ \E r \in 1..Len(lastOp.ret.results) : lastOp.ret.results[r].file = lastOp.args[1][k]
         /\ (\/ lastOp.args[3][k] = NoAnswer
             \/ ~(StartsWith(AnswerToken(lastOp.args[3][k]), "yes")
                  \/ StartsWith(AnswerToken(lastOp.args[3][k]), "no")))
            => \A r \in 1..Len(lastOp.ret.results) :
                 lastOp.ret.results[r].file = lastOp.args[1][k] => lastOp.ret.results[r].score = 30

\* the part of C23 that is about an answer with an unknown token, and about the count
C23_Diag_UnknownTokenNeutral ==
  lastOp.op = "rerank" =>
    /\ lastOp.err = NoErr
    /\ Len(lastOp.ret.results) = Len(lastOp.args[1])
    /\ \A k \in 1..Len(lastOp.args[1]) :
         (/\ lastOp.args[3][k] # NoAnswer
          /\ ~(StartsWith(AnswerToken(lastOp.args[3][k]), "yes")
               \/ StartsWith(AnswerToken(lastOp.args[3][k]), "no")))
            => \A r \in 1..Len(lastOp.ret.results) :
                 lastOp.ret.results[r].file = lastOp.args[1][k] => lastOp.ret.results[r].score = 30



\* C27: while a request of the running batch is outstanding, no rerank task
\* of the batch reads or writes the LLM cache table of the Store
C27_NoStoreAccessWhileOutstanding ==
  lastOp.op \in {"cacheGet", "cacheSet"} => lastOp.ret.outstanding = {}

\* the requests in flight belong to the running batch
InFlightInBatch ==
  llm.inflight \subseteq (llm.i + 1)..(llm.i + EffectiveBatchSize(llm.option))

\* the results collected so far are those of the first documents, in input order
CollectedInOrder(collected, docs) ==
  /\ Len(collected) <= Len(docs)
  /\ \A k \in 1..Len(collected) : collected[k].file = docs[k]

\* C28: during rerank at most batchSize requests (5 when no size is given) are
\* in flight, a request of a batch is in flight only when every request of the
\* batches before it has completed and their results are collected, and the
\* collected results are in the input order of the documents before the final sort
C28_BatchesBoundedAndOrdered ==
  /\ llm.active =>
       /\ Cardinality(llm.inflight) <= EffectiveBatchSize(llm.option)
       /\ InFlightInBatch
       /\ llm.inflight # {} => Len(llm.results) = llm.i
       /\ CollectedInOrder(llm.results, llm.documents)
  /\ lastOp.op = "rerank" =>
       /\ Len(lastOp.ret.collected) = Len(lastOp.args[1])
       /\ CollectedInOrder(lastOp.ret.collected, lastOp.args[1])

\* the second batch has a request in flight after a first batch of two was collected
C28_Witness ==
  /\ llm.active
  /\ llm.option = 2
  /\ llm.i = 2
  /\ llm.inflight = {3}
  /\ Len(llm.results) = 2



\* ------------------------------------------------------------------------
\* The query tool: the ranked lists of a hybrid query and their weights
\* ------------------------------------------------------------------------

\* what a search of one query returns: no hit, one hit, two hits
HitLists == {<<>>, <<"qmd://notes/a.md">>, <<"qmd://notes/b.md", "qmd://notes/a.md">>}

\* the queries after the expansion: the original query alone, or with one variation
MaxQueries == 2

RECURSIVE CollectRankedLists(_, _, _)
\* for (const q of queries): the FTS hits of q are pushed when there are any,
\* then, with a vectors_vec table, the vector hits of q when there are any;
\* q is the position of the query, 1 for the original query
CollectRankedLists(hits, hasVectors, q) ==
  IF q > Len(hits) THEN <<>>
  ELSE (IF Len(hits[q].fts) > 0 THEN <<[query |-> q, kind |-> "fts", list |-> hits[q].fts]>> ELSE <<>>)
       \o (IF hasVectors /\ Len(hits[q].vec) > 0
             THEN <<[query |-> q, kind |-> "vec", list |-> hits[q].vec]>> ELSE <<>>)
       \o CollectRankedLists(hits, hasVectors, q + 1)

\* rankedLists.map((_, i) => (i < 2 ? 2.0 : 1.0))
FusionWeights(rankedLists) == [i \in 1..Len(rankedLists) |-> IF i - 1 < 2 THEN 2 ELSE 1]

\* the query tool up to the fusion: hits[q] are the hits of the searches of query q
QueryCollect(hits, hasVectors) ==
  /\ Idle
  /\ LET rankedLists == CollectRankedLists(hits, hasVectors, 1)
         weights == FusionWeights(rankedLists)
     IN lastOp' = Op("rankedLists", <<hits, hasVectors>>, NoErr,
                     [lists |-> [i \in 1..Len(rankedLists) |->
                                   [query |-> rankedLists[i].query, kind |-> rankedLists[i].kind,
                                    list |-> rankedLists[i].list, weight |-> weights[i]]],
                      fused |-> reciprocalRankFusion([i \in 1..Len(rankedLists) |-> rankedLists[i].list],
                                                     weights)])
  /\ snap' = NoSnap
  /\ UNCHANGED <<fs, ollama_cache, legacy, proc, llm, storeVars, vecVars, nextId, clock, repoOps,
                 pc, run, emb>>

NextHybrid ==
  \E n \in 1..MaxQueries, hasVectors \in BOOLEAN :
    \E hits \in [1..n -> [fts : HitLists, vec : HitLists]] : QueryCollect(hits, hasVectors)

SpecHybrid == Init /\ [][NextHybrid]_vars

\* C24: in a hybrid query the hit lists of the original query, and only they,
\* are fused with weight 2.0, and every hit list of an expansion query is
\* fused with weight 1.0, whichever searches return hits
C24_OriginalListsWeighTwo ==
  lastOp.op = "rankedLists" =>
    \A i \in 1..Len(lastOp.ret.lists) :
      lastOp.ret.lists[i].weight = IF lastOp.ret.lists[i].query = 1 THEN 2 ELSE 1

\* the weights when both searches of the original query return hits
C24_Diag_WhenOriginalHits ==
  (/\ lastOp.op = "rankedLists"
   /\ lastOp.args[2]
   /\ Len(lastOp.args[1][1].fts) > 0
   /\ Len(lastOp.args[1][1].vec) > 0) =>
    \A i \in 1..Len(lastOp.ret.lists) :
      lastOp.ret.lists[i].weight = IF lastOp.ret.lists[i].query = 1 THEN 2 ELSE 1



\* ------------------------------------------------------------------------
\* getEmbedding: one retry after ensureModelAvailable
\* ------------------------------------------------------------------------

NoEmbedding == "<null>"

\* the request of the provider that has completed, and whether it succeeded
Call(call, ok) == [call |-> call, ok |-> ok]

\* getEmbedding(text, model) sends the first llm.embed
GetEmbeddingStart(text, model) ==
  /\ Idle
  /\ llm' = [active |-> TRUE, text |-> text, model |-> model, calls |-> <<>>]
  /\ pc' = "get_embedding"
  /\ snap' = NoSnap
  /\ UNCHANGED <<fs, ollama_cache, legacy, proc, storeVars, vecVars, nextId, clock, repoOps,
                 run, emb, lastOp>>

\* the first llm.embed returns: the embedding, or null and ensureModelAvailable begins
GetEmbeddingEmbed(ok) ==
  /\ pc = "get_embedding"
  /\ IF ok
       THEN /\ llm' = NoLlm
            /\ pc' = "idle"
            /\ lastOp' = Op("getEmbedding", <<llm.text, llm.model>>, NoErr,
                            [embedding |-> llm.text, calls |-> Append(llm.calls, Call("embed", TRUE))])
       ELSE /\ llm' = [llm EXCEPT !.calls = Append(@, Call("embed", FALSE))]
            /\ pc' = "model_exists"
            /\ lastOp' = lastOp
  /\ UNCHANGED <<fs, ollama_cache, legacy, proc, storeVars, vecVars, nextId, clock, repoOps,
                 run, emb, snap>>

\* ensureModelAvailable: llm.modelExists returns
EnsureModelExists(exists) ==
  /\ pc = "model_exists"
  /\ llm' = [llm EXCEPT !.calls = Append(@, Call("show", exists))]
  /\ pc' = IF exists THEN "retry_embedding" ELSE "pull_model"
  /\ UNCHANGED <<fs, ollama_cache, legacy, proc, storeVars, vecVars, nextId, clock, repoOps,
                 run, emb, lastOp, snap>>

\* ensureModelAvailable: llm.pullModel returns; a failed pull is thrown
EnsurePullModel(success) ==
  /\ pc = "pull_model"
  /\ IF success
       THEN /\ llm' = [llm EXCEPT !.calls = Append(@, Call("pull", TRUE))]
            /\ pc' = "retry_embedding"
            /\ lastOp' = lastOp
       ELSE /\ llm' = NoLlm
            /\ pc' = "idle"
            /\ lastOp' = Op("getEmbedding", <<llm.text, llm.model>>, "Failed to pull model",
                            [embedding |-> NoEmbedding, calls |-> Append(llm.calls, Call("pull", FALSE))])
  /\ UNCHANGED <<fs, ollama_cache, legacy, proc, storeVars, vecVars, nextId, clock, repoOps,
                 run, emb, snap>>

\* a retry that begins ensureModelAvailable again when it fails
GetEmbeddingRetry_Again(ok) ==
  /\ pc = "retry_embedding"
  /\ llm' = [llm EXCEPT !.calls = Append(@, Call("embed", ok))]
  /\ pc' = IF ok THEN "idle" ELSE "model_exists"
  /\ lastOp' = IF ok THEN Op("getEmbedding", <<llm.text, llm.model>>, NoErr,
                             [embedding |-> llm.text, calls |-> llm'.calls])
                     ELSE lastOp
  /\ UNCHANGED <<fs, ollama_cache, legacy, proc, storeVars, vecVars, nextId, clock, repoOps,
                 run, emb, snap>>

\* the second llm.embed returns: the embedding, or the error of getEmbedding
GetEmbeddingRetry(ok) ==
  /\ pc = "retry_embedding"
  /\ llm' = NoLlm
  /\ pc' = "idle"
  /\ lastOp' = Op("getEmbedding", <<llm.text, llm.model>>,
                  IF ok THEN NoErr ELSE "Failed to get embedding",
                  [embedding |-> IF ok THEN llm.text ELSE NoEmbedding,
                   calls |-> Append(llm.calls, Call("embed", ok))])
  /\ UNCHANGED <<fs, ollama_cache, legacy, proc, storeVars, vecVars, nextId, clock, repoOps,
                 run, emb, snap>>

EmbedTexts == {"a", "b", "c"}

NextEmbedding ==
  \/ \E text \in EmbedTexts, model \in Models : GetEmbeddingStart(text, model)
  \/ \E ok \in BOOLEAN : GetEmbeddingEmbed(ok)
  \/ \E exists \in BOOLEAN : EnsureModelExists(exists)
  \/ \E success \in BOOLEAN : EnsurePullModel(success)
  \/ \E ok \in BOOLEAN : GetEmbeddingRetry(ok)

SpecEmbedding == Init /\ [][NextEmbedding]_vars

\* the provider calls of the getEmbedding in progress, or of the one that ended last
EmbeddingCalls ==
  IF pc \in {"get_embedding", "model_exists", "pull_model", "retry_embedding"} THEN llm.calls
  ELSE IF lastOp.op = "getEmbedding" THEN lastOp.ret.calls
  ELSE <<>>

EmbedCalls(calls) == {i \in 1..Len(calls) : calls[i].call = "embed"}

\* C26: getEmbedding calls embed at most twice for a text; the second call
\* comes only after the first returned null and ensureModelAvailable has
\* completed (the model exists, or it was missing and the pull succeeded);
\* when the second call returns null too getEmbedding raises its error and
\* calls the provider no more
C26_OneRetryAfterEnsure ==
  LET calls == EmbeddingCalls
  IN /\ Cardinality(EmbedCalls(calls)) <= 2
     /\ \A i \in EmbedCalls(calls) :
          i > 1 =>
            /\ calls[1] = Call("embed", FALSE)
            /\ \/ i = 3 /\ calls[2] = Call("show", TRUE)
               \/ i = 4 /\ calls[2] = Call("show", FALSE) /\ calls[3] = Call("pull", TRUE)
            /\ calls[i].ok = FALSE =>
                 /\ pc = "idle"
                 /\ lastOp.op = "getEmbedding"
                 /\ lastOp.err = "Failed to get embedding"
                 /\ Len(calls) = i

\* the model was missing, the pull succeeded and the second embed returned null too
C26_Witness ==
  /\ lastOp.op = "getEmbedding"
  /\ lastOp.err = "Failed to get embedding"
  /\ lastOp.ret.calls = <<Call("embed", FALSE), Call("show", FALSE), Call("pull", TRUE), Call("embed", FALSE)>>



\* ------------------------------------------------------------------------
\* Vector search over collections that share content
\* ------------------------------------------------------------------------

NextSearchShared ==
  \/ \E b \in {"# T", NoFile} : FsWrite("x.md", b)
  \/ \E b \in {BigBody, NoFile} : FsWrite("sub/y.md", b)
  \/ IndexStart("/w/notes", "**/*.md", "docs")
  \/ IndexStart("/w/notes", "*.md", NoName)
  \/ IndexFile
  \/ IndexDeactivate
  \/ IndexCleanup
  \/ IndexFinish
  \/ VectorIndexStart("embeddinggemma", FALSE)
  \/ \E ok \in BOOLEAN : VectorIndexFirst(ok)
  \/ \E ok \in BOOLEAN : VectorIndexNext(ok)
  \/ \E f \in {"notes", "docs"}, l \in Limits, ok \in BOOLEAN :
       SearchVector("t", "embeddinggemma", f, l, ok)

SpecSearchShared == Init /\ [][NextSearchShared]_vars

\* C25: every hit of searchVector with the filter of an existing collection is
\* an active document of that collection, also when a document of another
\* collection has the content hash of the matching chunk
C25_VectorHitsInCollection ==
  (/\ lastOp.op = "searchVector"
   /\ lastOp.err = NoErr
   /\ getByName(collections, lastOp.args[2]) # {})
    => \A i \in 1..Len(lastOp.ret) :
         \E d \in documents :
           /\ d.active = 1
           /\ d.collection_id = ResolveCollectionId(lastOp.args[2])
           /\ FileOf(d) = lastOp.ret[i]

\* the hits when no content hash is shared between collections
C25_Diag_UnsharedHashes ==
  (/\ lastOp.op = "searchVector"
   /\ lastOp.err = NoErr
   /\ getByName(collections, lastOp.args[2]) # {}
   /\ \A d1, d2 \in documents : (d1.hash = d2.hash /\ d1.active = 1 /\ d2.active = 1)
                                   => d1.collection_id = d2.collection_id)
    => \A i \in 1..Len(lastOp.ret) :
         \E d \in documents :
           /\ d.active = 1
           /\ d.collection_id = ResolveCollectionId(lastOp.args[2])
           /\ FileOf(d) = lastOp.ret[i]



\* ------------------------------------------------------------------------
\* withDb / withDbAsync and updateCollections
\* ------------------------------------------------------------------------

\* depth of the withDb callbacks that run inside one another
MaxNesting == 2

\* withDbAsync(fn) up to the call of fn(db): db is the singleton connection
WithDbEnter ==
  /\ pc \in {"idle", "with_db"}
  /\ Len(proc.handles) < MaxNesting
  /\ proc' = [getDb(proc) EXCEPT !.handles = Append(@, "open")]
  /\ pc' = "with_db"
  /\ lastOp' = Op("withDbAsync", <<Len(proc.handles) + 1>>, NoErr, <<>>)
  /\ UNCHANGED <<fs, ollama_cache, legacy, llm, storeVars, vecVars, nextId, clock, repoOps,
                 run, emb, snap>>

\* the innermost callback has returned or thrown: finally { closeDb() }
WithDbReturn ==
  /\ pc = "with_db"
  /\ proc' = closeDb([proc EXCEPT !.handles = SubSeq(@, 1, Len(@) - 1)])
  /\ pc' = IF Len(proc.handles) = 1 THEN "idle" ELSE "with_db"
  /\ lastOp' = Op("closeDb", <<Len(proc.handles)>>, NoErr, <<>>)
  /\ UNCHANGED <<fs, ollama_cache, legacy, llm, storeVars, vecVars, nextId, clock, repoOps,
                 run, emb, snap>>

\* DELETE FROM collections WHERE id NOT IN (SELECT MIN(id) ... GROUP BY pwd,
\* glob_pattern), then DELETE FROM collections WHERE glob_pattern = '.'
RECURSIVE DeleteCollectionRows(_, _)
DeleteCollectionRows(db, ids) ==
  IF ids = {} THEN db
  ELSE LET id == CHOOSE id \in ids : TRUE
       IN DeleteCollectionRows(DeleteCollectionRow(db, id), ids \ {id})

cleanupDuplicateCollections(db) ==
  LET dups == {c \in db.collections :
                 \E o \in db.collections :
                   o.pwd = c.pwd /\ o.glob_pattern = c.glob_pattern /\ o.id < c.id}
      db1 == DeleteCollectionRows(db, {c.id : c \in dups})
  IN DeleteCollectionRows(db1, {c.id : c \in {x \in db1.collections : x.glob_pattern = "."}})

\* the columns of the documents table
DocumentColumns ==
  {"id", "collection_id", "path", "title", "hash", "created_at", "modified_at", "active"}

\* updateDisplayPaths: its first statement selects d.filepath and filters on
\* d.display_path; the error of the statement, NoErr when every column exists
updateDisplayPaths ==
  IF "filepath" \notin DocumentColumns THEN "no such column: d.filepath"
  ELSE IF "display_path" \notin DocumentColumns THEN "no such column: d.display_path"
  ELSE NoErr

\* updateCollections: the duplicates are removed, the cache is cleared and the
\* collections are listed; without collections the command returns, else
\* updateDisplayPaths runs before the loop over the collections. Its statement
\* fails on the documents table, so the loop of indexFiles calls is never
\* entered; withDbAsync closes the connection and the error is thrown
UpdateCollections ==
  /\ Idle
  /\ LET db1 == cleanupDuplicateCollections(DB)
         listed == {<<c.pwd, c.glob_pattern>> : c \in db1.collections}
     IN /\ SetDB(db1)
        /\ ollama_cache' = {}
        /\ proc' = closeDb(getDb(proc))
        /\ IF db1.collections = {}
             THEN lastOp' = Op("updateCollections", <<>>, NoErr,
                               [listed |-> listed, indexed |-> {}, before |-> collections])
             ELSE lastOp' = Op("updateCollections", <<>>, updateDisplayPaths,
                               [listed |-> listed, indexed |-> {}, before |-> collections])
  /\ snap' = NoSnap
  /\ UNCHANGED <<fs, legacy, llm, vecVars, nextId, clock, repoOps, pc, run, emb>>

NextUpdate ==
  \/ \E p \in Paths, b \in {"# T", NoFile} : FsWrite(p, b)
  \/ \E g \in Globs : IndexStart("/w/notes", g, NoName)
  \/ IndexFile
  \/ IndexDeactivate
  \/ IndexCleanup
  \/ IndexFinish
  \/ UpdateCollections
  \/ WithDbEnter
  \/ WithDbReturn

SpecUpdate == Init /\ [][NextUpdate]_vars

\* C29: the handle a withDb or withDbAsync callback was given stays open until
\* that callback has returned, also when a withDb or withDbAsync call is made
\* and completes inside the callback
C29_HandleOpenWhileCallbackRuns ==
  \A i \in 1..Len(proc.handles) : proc.handles[i] = "open"

\* C30: updateCollections runs indexFiles for every collection that existed
\* before it with the pwd and glob_pattern stored for the collection, and
\* afterwards every collection row is one that existed before
C30_UpdateReindexesStored ==
  lastOp.op = "updateCollections" =>
    /\ lastOp.err = NoErr
    /\ lastOp.ret.indexed = {<<c.pwd, c.glob_pattern>> : c \in lastOp.ret.before}
    /\ collections \subseteq lastOp.ret.before

\* the part of C30 about the collection rows
C30_Diag_NoNewCollection ==
  lastOp.op = "updateCollections" => collections \subseteq lastOp.ret.before

====
